---- MODULE Spec2Model ----
(***************************************************************************)
(* A model of the accessibility-testing coordinator                        *)
(* (src/agents/adk_coordinator.py), of the checker base class             *)
(* (src/agents/base_agent.py) and of the JSON-RPC server                   *)
(* (src/agents/a2a_server.py).                                             *)
(*                                                                         *)
(* Python values are rendered as follows.                                  *)
(*   - Optional[str]: <<>> is None, <<s>> is the string s.                 *)
(*   - a description is the sequence of its characters;                    *)
(*   - a guideline citation is the sequence of its words, the text split   *)
(*     at single spaces (no leading, trailing or doubled space), so that   *)
(*     the substring tests of the code become tests on words;              *)
(*   - a JSON value is the TLA+ string of its JSON text ("null", "1",      *)
(*     "\"abc\"", "[\"a\"]"), a missing member of an object is Absent.     *)
(***************************************************************************)
EXTENDS Integers, Sequences, FiniteSets, TLC

VARIABLES
    issues,         \* the argument list of _deduplicate_issues / _prioritize_issues
    output,         \* the list the function returned
    op,             \* which function has been applied: "none", "dedup", "prioritize"
    pc,             \* where Coordinator.analyze stands: "idle", "remote", "local"
    runs,           \* analyze calls that have returned
    url_status,     \* what a reachability probe of the run's url would meet
    remote_agents,  \* self.remote_agents
    remote_calls,   \* the run's remote invocations, in task order, with their results
    all_issues,     \* the run's all_issues list
    next_sub,       \* index in sub_agents of the next local checker to run
    outcomes,       \* the run's local invocations: sub-agent index -> what it did
    test_results,   \* self.test_results
    issues_found,   \* self.issues_found
    method_handlers,    \* A2AServer.method_handlers: the registered "<agent>.<method>" keys
    active_connections, \* A2AServer.active_connections
    ws_running,     \* the connections whose websocket_handler loop is running
    exchange,       \* the last request the server handled and what it did with it
    prev_code,      \* the error code of the exchange before it (0: none or a result)
    now,            \* datetime.utcnow(), in minutes
    known_agents,   \* A2AProtocol.known_agents: name -> RemoteAgent
    sweep_input,    \* what the endpoints of a sweep answer and the capabilities asked for
    last_op,        \* the last A2AProtocol operation, its inputs and its outcome
    active_sessions,    \* ADKAccessibilityOrchestrator.active_sessions: id -> session state
    issued,         \* how many session ids InvocationContext.create_new has made
    last_call,      \* the last orchestrator call, its session id and its outcome
    agents,         \* A2AServer.agents: name -> the agent object
    agent_cards,    \* A2AServer.agent_cards: name -> the card
    last_register,  \* the last register_agent call, its arguments and how it ended
    bc,             \* broadcast_to_connections: where it stands and its local list
    closed,         \* the connections whose ws.closed is true
    checker_issues, \* issues_found of one specialised checker
    checker_call,   \* the last call on the checker, its inputs and what it returned
    in_flight,      \* the checker invocations of an analyze call that have started and not ended
    completion,     \* the invocations of the call that have ended, in the order they ended
    ctor_stack,     \* the constructors running, outermost first, each with its next call
    ctor_state,     \* how the outermost construction stands: "idle", "running", how it ended
    task_call,      \* the last call of the task executor's test tool and what it did
    handler_of,     \* what each handler in method_handlers closes over: key -> agent, method
    client_call     \* the last client request sent to the server and how it was answered

listVars == <<issues, output, op>>

coordVars == <<pc, runs, url_status, remote_agents, remote_calls, all_issues,
               next_sub, outcomes, test_results, issues_found>>

rpcVars == <<method_handlers, active_connections, ws_running, exchange, prev_code>>

protoVars == <<now, known_agents, sweep_input, last_op>>

sessVars == <<active_sessions, issued, last_call>>

regVars == <<agents, agent_cards, last_register>>

bcVars == <<bc, closed>>

chkVars == <<checker_issues, checker_call>>

fanVars == <<in_flight, completion>>

ctorVars == <<ctor_stack, ctor_state>>

taskVars == <<task_call>>

nameVars == <<handler_of, client_call>>

partVars == <<regVars, bcVars, chkVars, fanVars, ctorVars, taskVars, nameVars>>

vars == <<listVars, coordVars, rpcVars, protoVars, sessVars, partVars>>

----------------------------------------------------------------------------
(* Bounds of the model *)

MaxDedupLen == 3
MaxPrioLen == 2
MaxOut == 1         \* issues one local checker returns
MaxRuns == 2        \* analyze calls on one coordinator
MaxScoreLen == 5    \* issues in a scored list
MaxFound == 3       \* issues add_issue puts in one checker's issues_found
RecursionLimit == 40 \* frames of constructors the interpreter allows
MaxConnections == 2 \* WebSocket connections a server accepts

----------------------------------------------------------------------------
(* Python helpers *)

\* s[:n]
Take(s, n) == SubSeq(s, 1, IF Len(s) < n THEN Len(s) ELSE n)

\* the string of n copies of the character c
Text(n, c) == [i \in 1..n |-> c]

\* list.remove(x): drops the first element equal to x
RECURSIVE ListRemove(_, _)
ListRemove(s, x) ==
    IF s = <<>> THEN <<>>
    ELSE IF Head(s) = x THEN Tail(s)
    ELSE <<Head(s)>> \o ListRemove(Tail(s), x)

\* all lists over S of length at most n
ListsUpTo(S, n) == UNION {[1..k -> S] : k \in 0..n}

SetMin(S) == CHOOSE m \in S : \A k \in S : m <= k

SetMax(S) == CHOOSE m \in S : \A k \in S : m >= k

----------------------------------------------------------------------------
(* TestSeverity and AccessibilityIssue (base_agent.py) *)

TestSeverity == {"critical", "high", "medium", "low", "info"}

\* suggested_fix and evidence are carried along unread by every function
\* modelled here and are left out of the record.
AccessibilityIssue(agent, type, sev, desc, sel, guide) ==
    [agent_name |-> agent, issue_type |-> type, severity |-> sev,
     description |-> desc, element_selector |-> sel, wcag_guideline |-> guide]

----------------------------------------------------------------------------
(* AccessibilityCoordinatorAgent._severity_rank *)

_severity_rank(severity) ==
    CASE severity = "critical" -> 5
      [] severity = "high" -> 4
      [] severity = "medium" -> 3
      [] severity = "low" -> 2
      [] severity = "info" -> 1
      [] OTHER -> 0

----------------------------------------------------------------------------
(* AccessibilityCoordinatorAgent._deduplicate_issues *)

\* issue.description[:100]
DescKeyLen == 100

issue_key(issue) ==
    <<issue.issue_type, issue.element_selector, issue.wcag_guideline,
      Take(issue.description, DescKeyLen)>>

\* next((ui for ui in unique_issues if key(ui) == issue_key), None):
\* <<>> is None, <<ui>> the first match
existing_issue(unique_issues, key) ==
    LET hits == {i \in 1..Len(unique_issues) : issue_key(unique_issues[i]) = key}
    IN  IF hits = {} THEN <<>> ELSE <<unique_issues[SetMin(hits)]>>

\* A variant of the loop body that replaces the retained issue on a tie too.
DedupStepTieReplaces(st, issue) ==
    LET key == issue_key(issue)
        found == existing_issue(st.unique_issues, key)
    IN  IF key \notin st.seen
        THEN [seen |-> st.seen \cup {key},
              unique_issues |-> Append(st.unique_issues, issue)]
        ELSE IF found # <<>>
                /\ _severity_rank(issue.severity) >= _severity_rank(found[1].severity)
        THEN [st EXCEPT !.unique_issues =
                 Append(ListRemove(st.unique_issues, found[1]), issue)]
        ELSE st

\* One iteration of the for loop: st = [seen, unique_issues].
DedupStep(st, issue) ==
    LET key == issue_key(issue)
        found == existing_issue(st.unique_issues, key)
    IN  IF key \notin st.seen
        THEN [seen |-> st.seen \cup {key},
              unique_issues |-> Append(st.unique_issues, issue)]
        ELSE IF found # <<>>
                /\ _severity_rank(issue.severity) > _severity_rank(found[1].severity)
        THEN [st EXCEPT !.unique_issues =
                 Append(ListRemove(st.unique_issues, found[1]), issue)]
        ELSE st

RECURSIVE DedupLoop(_, _)
DedupLoop(st, rest) ==
    IF rest = <<>> THEN st ELSE DedupLoop(DedupStep(st, Head(rest)), Tail(rest))

_deduplicate_issues(list) ==
    DedupLoop([seen |-> {}, unique_issues |-> <<>>], list).unique_issues

----------------------------------------------------------------------------
(* AccessibilityCoordinatorAgent._prioritize_issues *)

\* " X " in text or text.endswith(" X"), on the words of the text
MentionsWord(words, X) ==
    \/ \E i \in 2..(Len(words) - 1) : words[i] = X
    \/ Len(words) >= 2 /\ words[Len(words)] = X

wcag_priority(guideline) ==
    IF guideline = <<>> \/ guideline[1] = <<>> THEN 1
    ELSE IF MentionsWord(guideline[1], "A") THEN 3
    ELSE IF MentionsWord(guideline[1], "AA") THEN 2
    ELSE 1

priority_key(issue) == <<_severity_rank(issue.severity), wcag_priority(issue.wcag_guideline)>>

\* tuple comparison k1 < k2
KeyLess(k1, k2) == k1[1] < k2[1] \/ (k1[1] = k2[1] /\ k1[2] < k2[2])

\* A variant that places an element in front of the elements of equal key.
RECURSIVE InsertDescBeforeTies(_, _)
InsertDescBeforeTies(sorted, issue) ==
    IF sorted = <<>> THEN <<issue>>
    ELSE IF ~KeyLess(priority_key(issue), priority_key(Head(sorted)))
    THEN <<issue>> \o sorted
    ELSE <<Head(sorted)>> \o InsertDescBeforeTies(Tail(sorted), issue)

\* sorted(..., reverse=True) is stable: an element goes behind every element
\* already placed whose key is not smaller.
RECURSIVE InsertDesc(_, _)
InsertDesc(sorted, issue) ==
    IF sorted = <<>> THEN <<issue>>
    ELSE IF KeyLess(priority_key(Head(sorted)), priority_key(issue))
    THEN <<issue>> \o sorted
    ELSE <<Head(sorted)>> \o InsertDesc(Tail(sorted), issue)

RECURSIVE SortDesc(_, _)
SortDesc(sorted, rest) ==
    IF rest = <<>> THEN sorted ELSE SortDesc(InsertDesc(sorted, Head(rest)), Tail(rest))

_prioritize_issues(list) == SortDesc(<<>>, list)

----------------------------------------------------------------------------
(* Inputs of the two list functions *)

LongPrefix == Text(DescKeyLen, "a")

DescTailX == LongPrefix \o <<"x">>
DescTailY == LongPrefix \o <<"y">>
DescShort == Text(DescKeyLen - 1, "a") \o <<"x">>

GuideContrast == <<"WCAG", "2.2", "-", "1.4.3", "Contrast", "(Minimum)">>
GuideLevelA == <<"WCAG", "2.2", "Level", "A">>
GuideLevelAA == <<"WCAG", "2.2", "Level", "AA", "-", "1.4.3">>
GuideLevelAAA == <<"WCAG", "2.2", "Level", "AAA">>
GuideParenAA == <<"1.4.3", "Contrast", "(Minimum)", "(Level", "AA)">>

\* Key fields of the issues given to _deduplicate_issues: two descriptions that
\* agree on their first 100 characters, and one change of each key field.
DedupForms ==
    { <<"LOW_TEXT_CONTRAST", <<"p.intro">>, <<GuideContrast>>, DescTailX>>,
      <<"LOW_TEXT_CONTRAST", <<"p.intro">>, <<GuideContrast>>, DescTailY>>,
      <<"LOW_TEXT_CONTRAST", <<"p.intro">>, <<GuideContrast>>, DescShort>>,
      <<"NO_SKIP_LINKS", <<"p.intro">>, <<GuideContrast>>, DescTailX>>,
      <<"LOW_TEXT_CONTRAST", <<>>, <<GuideContrast>>, DescTailX>>,
      <<"LOW_TEXT_CONTRAST", <<"p.intro">>, <<>>, DescTailX>> }

DedupSeverities == {"critical", "high", "low"}

DedupIssues ==
    { AccessibilityIssue("color_contrast", f[1], s, f[4], f[2], f[3]) :
        f \in DedupForms, s \in DedupSeverities }

PrioGuidelines ==
    { <<>>, <<GuideContrast>>, <<GuideLevelA>>, <<GuideLevelAA>>,
      <<GuideLevelAAA>>, <<GuideParenAA>> }

PrioIssues ==
    { AccessibilityIssue("color_contrast", "LOW_TEXT_CONTRAST", s, <<"l", "o", "w">>,
                         <<"p.intro">>, g) :
        s \in TestSeverity, g \in PrioGuidelines }

----------------------------------------------------------------------------
(* BaseAccessibilityAgent.validate_url: the probe's answer is 200 *)

ProbeOutcomes == {"200", "404", "connection_error"}

validate_url(status) == status = "200"

----------------------------------------------------------------------------
(* AccessibilityCoordinatorAgent: remote invocations *)

\* handles discover_agents can return
RemoteHandles == {"remote_checker"}

\* the test types analyze crosses every remote agent with
TestTypes == <<"color_contrast", "keyboard_navigation", "screen_reader", "form_validation">>

RemoteIssue ==
    AccessibilityIssue("remote_remote_checker", "LOW_TEXT_CONTRAST", "high",
                       <<"l", "o", "w">>, <<"p.intro">>, <<GuideContrast>>)

\* what the remote server would answer to the POST
RemoteReplies ==
    { [kind |-> "timeout"], [kind |-> "http_error"], [kind |-> "rpc_error"],
      [kind |-> "ok", issues |-> <<RemoteIssue>>] }

\* A2AProtocol.send_request(self, target_agent, method_name, params, timeout=30)
SendRequestParameters == {"target_agent", "method_name", "params", "timeout"}

SendRequestRequired == {"target_agent", "method_name", "params"}

\* the keywords coordinate_with_remote_agent passes to send_request
CallKeywords == {"target_agent", "action", "payload"}

\* Python binds a call when every keyword names a parameter and every
\* parameter without a default is given; otherwise the call raises TypeError.
CallBinds ==
    /\ CallKeywords \subseteq SendRequestParameters
    /\ SendRequestRequired \subseteq CallKeywords

\* A variant that returns an empty payload for an envelope with an error member.
send_request_ignoring_error(reply) ==
    IF reply.kind \in {"ok", "rpc_error"}
    THEN [raised |-> FALSE, result |-> IF reply.kind = "ok" THEN reply.issues ELSE <<>>]
    ELSE [raised |-> TRUE, result |-> <<>>]

\* A2AProtocol.send_request: the result payload, or an exception
send_request(reply) ==
    IF reply.kind = "ok"
    THEN [raised |-> FALSE, result |-> reply.issues]
    ELSE [raised |-> TRUE, result |-> <<>>]

\* send_request returns a dict; a dict has no attribute "success"
DictHasAttributeSuccess == FALSE

\* coordinate_with_remote_agent: every exception of the try block is caught
\* and turned into the empty list.
coordinate_with_remote_agent(remote_agent, test_type, reply) ==
    LET response == send_request(reply)
        failed == ~CallBinds \/ response.raised \/ ~DictHasAttributeSuccess
    IN  [agent |-> remote_agent, test_type |-> test_type, failed |-> failed,
         issues |-> IF failed THEN <<>> ELSE response.result]

\* A variant that makes one task for each handle, of the first test type.
RemoteTasksOnePerHandle(handles) ==
    [k \in 1..Len(handles) |-> [agent |-> handles[k], test_type |-> TestTypes[1]]]

\* remote_tasks, in the order of the two nested loops
RemoteTasks(handles) ==
    [k \in 1..(Len(handles) * Len(TestTypes)) |->
        [agent |-> handles[((k - 1) \div Len(TestTypes)) + 1],
         test_type |-> TestTypes[((k - 1) % Len(TestTypes)) + 1]]]

RECURSIVE Concat(_)
Concat(lists) == IF lists = <<>> THEN <<>> ELSE Head(lists) \o Concat(Tail(lists))

----------------------------------------------------------------------------
(* AccessibilityCoordinatorAgent: local sub-agents *)

\* sub_agents=[greeter, task_executor]
sub_agents == <<"accessibility_greeter", "accessibility_task_executor">>

LocalForms ==
    { <<"high", <<"p.intro">>>>, <<"critical", <<"p.intro">>>>, <<"high", <<"h1">>>> }

\* issues a local checker can report
LocalIssues(name) ==
    { AccessibilityIssue(name, "LOW_TEXT_CONTRAST", f[1], <<"l", "o", "w">>, f[2],
                         <<GuideContrast>>) : f \in LocalForms }

\* what sub_agent.analyze_accessibility does: raises, or returns a list
LocalOutcomes(name) ==
    {[raised |-> TRUE, issues |-> <<>>]}
        \cup {[raised |-> FALSE, issues |-> l] : l \in ListsUpTo(LocalIssues(name), MaxOut)}

\* A variant of the loop in which the first exception ends the loop.
AfterSubAgentAborting(i, outcome) ==
    IF outcome.raised THEN Len(sub_agents) + 1 ELSE i + 1

\* the for loop goes on to the next sub-agent whatever this one did
AfterSubAgent(i, outcome) == i + 1

\* the body of the try block: nothing is kept of a sub-agent that raised
SubAgentBody(st, name, outcome) ==
    IF outcome.raised THEN st
    ELSE [all_issues |-> st.all_issues \o outcome.issues,
          test_results |->
              [n \in DOMAIN st.test_results \cup {name} |->
                  IF n = name THEN outcome.issues ELSE st.test_results[n]]]

\* A variant of steps 3 and 4 that skips the deduplication.
MergeWithoutDedup(list) == _prioritize_issues(list)

\* steps 3 and 4 of analyze
Merge(list) == _prioritize_issues(_deduplicate_issues(list))

----------------------------------------------------------------------------
(* A2AServer: JSON-RPC over HTTP POST /a2a/rpc *)

\* a member the JSON object does not have
Absent == "<absent>"

\* Python None, and JSON null
PyNone == "null"

KeyAnalyze == "\"color_contrast_agent.analyze_accessibility\""
KeyCapabilities == "\"color_contrast_agent.get_capabilities\""

\* values that are strings
JsonStrings ==
    {"\"\"", "\"2.0\"", "\"1.0\"", "\"abc\"", KeyAnalyze, KeyCapabilities,
     "\"color_contrast_agent.unknown\""}

\* a list or a dict is not hashable: looking it up in a dict raises TypeError
Unhashable == {"[\"a\"]"}

\* values that are false in a condition
Falsy == {PyNone, "\"\"", "0", "[]", "{}", "false"}

JsonrpcValues == {Absent, "\"2.0\"", "\"1.0\""}

MethodValues ==
    {Absent, "\"\"", KeyAnalyze, KeyCapabilities, "\"color_contrast_agent.unknown\"",
     "[\"a\"]"}

IdValues == {Absent, "7", "\"abc\""}

\* request bodies: text that is not JSON, JSON that is not an object, objects
Bodies ==
    {[kind |-> "malformed"], [kind |-> "array"]}
        \cup {[kind |-> "object", jsonrpc |-> j, method |-> m, id |-> i] :
                j \in JsonrpcValues, m \in MethodValues, i \in IdValues}

\* dict.get(key): None for a missing member
Get(value) == IF value = Absent THEN PyNone ELSE value

\* what a registered handler does when it is called
HandlerBehaviours ==
    { [does |-> "returns", result |-> "{\"issues\": []}"],
      [does |-> "returns_unserializable", text |-> "Object of type TestSeverity is not JSON serializable"],
      [does |-> "raises", text |-> "boom"] }

NotCalled == [does |-> "nothing"]

\* the behaviours to draw for a body: those of the handler its method names, if any
BehavioursFor(body, handlers) ==
    IF body.kind = "object" /\ body.method \in handlers
    THEN HandlerBehaviours ELSE {NotCalled}

NoReply == [kind |-> "none"]

\* A2AServer._jsonrpc_error
_jsonrpc_error(code, message, request_id) ==
    [kind |-> "error", code |-> code, message |-> message, id |-> request_id,
     status |-> 400]

\* A variant that answers an unknown method without the request's id.
method_not_found_without_id(method, request_id) ==
    _jsonrpc_error(-32601, <<"Method not found: ", method>>, PyNone)

\* the else branch of "if method in self.method_handlers"
method_not_found(method, request_id) ==
    _jsonrpc_error(-32601, <<"Method not found: ", method>>, request_id)

\* A variant in which the handler's exception reaches the outer except clause.
method_failed_in_outer_handler(text, request_id) ==
    _jsonrpc_error(-32603, <<"Internal error">>, PyNone)

\* the inner except clause
method_failed(text, request_id) ==
    _jsonrpc_error(-32603, <<"Internal error: ", text>>, request_id)

\* the try block around the handler call and web.json_response, which
\* serializes the response and raises TypeError on a value json cannot encode
execute_method(behaviour, request_id) ==
    CASE behaviour.does = "returns" ->
            [kind |-> "result", result |-> behaviour.result, id |-> request_id,
             status |-> 200]
      [] behaviour.does = "returns_unserializable" ->
            method_failed(behaviour.text, request_id)
      [] behaviour.does = "raises" ->
            method_failed(behaviour.text, request_id)

\* A2AServer.handle_jsonrpc: the response, and whether a handler was called
handle_jsonrpc(body, behaviour, handlers) ==
    IF body.kind = "malformed"
    THEN [reply |-> _jsonrpc_error(-32700, <<"Parse error">>, PyNone), handler_ran |-> FALSE]
    ELSE IF body.kind # "object"
    \* data.get raises AttributeError: the last except clause
    THEN [reply |-> _jsonrpc_error(-32603, <<"Internal error">>, PyNone), handler_ran |-> FALSE]
    ELSE IF Get(body.jsonrpc) # "\"2.0\""
    THEN [reply |-> _jsonrpc_error(-32600, <<"Invalid Request">>, Get(body.id)),
          handler_ran |-> FALSE]
    ELSE IF Get(body.method) \in Falsy
    THEN [reply |-> _jsonrpc_error(-32600, <<"Invalid Request: method required">>,
                                   Get(body.id)),
          handler_ran |-> FALSE]
    ELSE IF body.method \in Unhashable
    \* "method in self.method_handlers" raises TypeError: the last except clause
    THEN [reply |-> _jsonrpc_error(-32603, <<"Internal error">>, PyNone), handler_ran |-> FALSE]
    ELSE IF body.method \in handlers
    THEN [reply |-> execute_method(behaviour, Get(body.id)), handler_ran |-> TRUE]
    ELSE [reply |-> method_not_found(body.method, Get(body.id)), handler_ran |-> FALSE]

----------------------------------------------------------------------------
(* A2AServer.websocket_handler: one text message *)

\* What the loop body does with one text message: the response it sends, whether
\* a handler was called, and whether an exception left the loop, which closes the
\* connection. send_ok: whether ws.send_str succeeds.
ws_message(body, behaviour, send_ok, handlers) ==
    LET sent(reply) ==
            IF send_ok
            THEN [reply |-> reply, closed |-> FALSE]
            ELSE [reply |-> NoReply, closed |-> TRUE]
        raised == [reply |-> NoReply, closed |-> TRUE]
        ignored == [reply |-> NoReply, closed |-> FALSE]
        with(r, ran) == [reply |-> r.reply, closed |-> r.closed, handler_ran |-> ran]
    IN  IF body.kind = "malformed"
        THEN with(sent([kind |-> "error", code |-> -32700, message |-> <<"Parse error">>,
                        id |-> PyNone]), FALSE)
        ELSE IF body.kind # "object" THEN with(raised, FALSE)
        ELSE IF Get(body.jsonrpc) # "\"2.0\"" THEN with(ignored, FALSE)
        ELSE IF body.method \in Unhashable THEN with(raised, FALSE)
        ELSE IF Get(body.method) \in handlers
        THEN CASE behaviour.does = "returns" ->
                    with(sent([kind |-> "result", result |-> behaviour.result,
                               id |-> Get(body.id)]), TRUE)
               \* json.dumps raises TypeError
               [] behaviour.does = "returns_unserializable" -> with(raised, TRUE)
               [] behaviour.does = "raises" -> with(raised, TRUE)
        ELSE with(sent([kind |-> "error", code |-> -32601,
                        message |-> <<"Method not found: ", Get(body.method)>>,
                        id |-> Get(body.id)]), FALSE)

\* connections a client can open
Connections == {"ws1", "ws2"}

\* the finally clause: if ws in self.active_connections: remove it
RemoveConnection(list, ws) == ListRemove(list, ws)

CodeOf(x) == IF x.reply.kind = "error" THEN x.reply.code ELSE 0

\* A2AServer.__init__ followed by register_agent of the color contrast agent
RpcInit ==
    /\ method_handlers = {KeyAnalyze, KeyCapabilities}
    /\ active_connections = <<>>
    /\ ws_running = {}
    /\ exchange = [transport |-> "none", reply |-> NoReply]
    /\ prev_code = 0

----------------------------------------------------------------------------
(* A2AProtocol.discover_agents *)

\* RemoteAgent; last_seen is <<>> for None and <<t>> for a time
RemoteAgent(name, endpoint, agent_type, capabilities, protocol_version, last_seen) ==
    [name |-> name, endpoint |-> endpoint, agent_type |-> agent_type,
     capabilities |-> capabilities, protocol_version |-> protocol_version,
     last_seen |-> last_seen]

\* One entry of the "agents" list of GET /a2a/agents. A member is <<>> when the
\* entry does not have it and <<value>> when it has.
AgentInfo(name, agent_type, testing_capabilities) ==
    [name |-> name, agent_type |-> agent_type,
     testing_capabilities |-> testing_capabilities]

\* list membership
In(x, list) == \E k \in DOMAIN list : list[k] = x

\* agent_info.get("testing_capabilities", [])
GetCapabilities(agent_info) ==
    IF agent_info.testing_capabilities = <<>> THEN <<>>
    ELSE agent_info.testing_capabilities[1]

\* the two if statements that filter an entry; capabilities is <<>> for None
PassesFilter(agent_info, agent_type, capabilities) ==
    /\ agent_info.agent_type = <<agent_type>>
    /\ \/ capabilities = <<>>
       \/ capabilities[1] = <<>>
       \/ \A k \in DOMAIN capabilities[1] :
             In(capabilities[1][k], GetCapabilities(agent_info))

\* The loop over the entries of one answer. agent_info["name"] raises KeyError on
\* an entry without a name: the exception ends the loop over this answer and what
\* it registered before stays.
RECURSIVE AgentLoop(_, _, _, _, _, _)
AgentLoop(st, endpoint, entries, agent_type, capabilities, time) ==
    IF entries = <<>> THEN st
    ELSE LET agent_info == Head(entries)
         IN  IF ~PassesFilter(agent_info, agent_type, capabilities)
             THEN AgentLoop(st, endpoint, Tail(entries), agent_type, capabilities, time)
             ELSE IF agent_info.name = <<>>
             THEN st
             ELSE LET remote_agent ==
                          RemoteAgent(agent_info.name[1], endpoint,
                                      agent_info.agent_type[1], agent_info, "1.0.0",
                                      <<time>>)
                      registered ==
                          [n \in DOMAIN st.known_agents \cup {remote_agent.name} |->
                              IF n = remote_agent.name THEN remote_agent
                              ELSE st.known_agents[n]]
                  IN  AgentLoop([discovered_agents |-> Append(st.discovered_agents, remote_agent),
                                 known_agents |-> registered],
                                endpoint, Tail(entries), agent_type, capabilities, time)

\* What GET <endpoint>/a2a/agents can come to: a status other than 200, a timeout,
\* a refused connection, a body that is not JSON, or 200 with a list of entries.
FailedAnswers ==
    { [kind |-> "status_500"], [kind |-> "timeout"], [kind |-> "refused"],
      [kind |-> "malformed_json"] }

\* the body of the try statement for one endpoint
ProbeEndpoint(st, endpoint, answer, agent_type, capabilities, time) ==
    IF answer.kind = "ok"
    THEN AgentLoop(st, endpoint, answer.agents, agent_type, capabilities, time)
    ELSE st

\* A variant in which an endpoint that fails ends the sweep.
RemainingAfterRaise(endpoints, answer) ==
    IF answer.kind # "ok" THEN <<>> ELSE Tail(endpoints)

\* "for endpoint in discovery_endpoints" with its except clause: continue
RemainingAfter(endpoints, answer) == Tail(endpoints)

RECURSIVE EndpointLoop(_, _, _, _, _, _)
EndpointLoop(st, endpoints, answers, agent_type, capabilities, time) ==
    IF endpoints = <<>> THEN st
    ELSE LET endpoint == Head(endpoints)
             after == ProbeEndpoint(st, endpoint, answers[endpoint], agent_type,
                                    capabilities, time)
         IN  EndpointLoop([discovered_agents |-> after.discovered_agents,
                           known_agents |-> after.known_agents,
                           probed |-> Append(st.probed, endpoint)],
                          RemainingAfter(endpoints, answers[endpoint]), answers,
                          agent_type, capabilities, time)

\* A2AProtocol.discover_agents: the list it returns, the registry it leaves and
\* the endpoints it sent a request to
discover_agents(known, endpoints, answers, agent_type, capabilities, time) ==
    EndpointLoop([discovered_agents |-> <<>>, known_agents |-> known, probed |-> <<>>],
                 endpoints, answers, agent_type, capabilities, time)

\* the endpoints of a sweep
DiscoveryEndpoints == <<"http://localhost:8080", "http://localhost:8081">>

EndpointSet == {DiscoveryEndpoints[k] : k \in DOMAIN DiscoveryEndpoints}

AgentType == "accessibility_tester"

BothCapabilities == <<"wcag_testing", "automated_accessibility">>

\* the capabilities argument: None, [], one capability, the coordinator's two
CapabilityFilters == {<<>>, << <<>> >>, << <<"wcag_testing">> >>, <<BothCapabilities>>}

\* entries an endpoint lists
DiscoveryEntries ==
    { AgentInfo(<<"a">>, <<AgentType>>, <<BothCapabilities>>),
      AgentInfo(<<"a">>, <<AgentType>>, << <<"wcag_testing">> >>),
      AgentInfo(<<"b">>, <<AgentType>>, <<>>),
      AgentInfo(<<"b">>, <<"report_writer">>, <<BothCapabilities>>),
      AgentInfo(<<"b">>, <<AgentType>>, <<BothCapabilities>>),
      AgentInfo(<<>>, <<AgentType>>, <<BothCapabilities>>) }

MaxAgentsPerEndpoint == 2

DiscoveryAnswers ==
    FailedAnswers \cup
        {[kind |-> "ok", agents |-> l] : l \in ListsUpTo(DiscoveryEntries, MaxAgentsPerEndpoint)}

NoOp == [op |-> "none"]

\* A2AProtocol.__init__: an empty registry
ProtoInit ==
    /\ now = 0
    /\ known_agents = <<>>
    /\ sweep_input = <<>>
    /\ last_op = NoOp

----------------------------------------------------------------------------
(* A2AProtocol: requests, pings and the freshness window *)

\* the handle with last_seen set to a time
Touch(handle, time) == [handle EXCEPT !.last_seen = <<time>>]

\* A2AProtocol.coordinate_accessibility_test: send_request, then last_seen
coordinate_accessibility_test(handle, reply, time) ==
    LET result == send_request(reply)
    IN  IF result.raised
        THEN [raised |-> TRUE, result |-> <<>>, handle |-> handle]
        ELSE [raised |-> FALSE, result |-> result.result, handle |-> Touch(handle, time)]

\* what GET <endpoint>/a2a/health can come to
PingOutcomes == {"200", "503", "timeout", "refused"}

\* A variant that stamps the handle whatever the health endpoint answers.
ping_agent_always_stamping(handle, outcome, time) ==
    [raised |-> FALSE, result |-> outcome = "200", handle |-> Touch(handle, time)]

\* A2AProtocol.ping_agent
ping_agent(handle, outcome, time) ==
    IF outcome = "200"
    THEN [raised |-> FALSE, result |-> TRUE, handle |-> Touch(handle, time)]
    ELSE [raised |-> FALSE, result |-> FALSE, handle |-> handle]

\* timedelta(minutes=5)
FreshMinutes == 5

\* A variant that also returns a handle seen exactly at the cutoff time.
get_available_agents_with_cutoff(known, time) ==
    {known[n] : n \in {m \in DOMAIN known :
        known[m].last_seen # <<>> /\ known[m].last_seen[1] >= time - FreshMinutes}}

\* A2AProtocol.get_available_agents; the handles as a set, their order left out
get_available_agents(known, time) ==
    {known[n] : n \in {m \in DOMAIN known :
        known[m].last_seen # <<>> /\ known[m].last_seen[1] > time - FreshMinutes}}

\* A2AProtocol.get_agent_registry: a copy of the dict
get_agent_registry(known) == known

\* the registry with one handle replaced by its new value
WithHandle(known, handle) == [known EXCEPT ![handle.name] = handle]

----------------------------------------------------------------------------
(* ADKAccessibilityOrchestrator: the session store *)

\* context.session.state of a new InvocationContext: a member is <<>> while the
\* dict has no such key
NewState ==
    [user_input |-> <<>>, test_results |-> <<>>, test_completed |-> <<>>,
     test_error |-> <<>>]

\* Session ids are the numbers 1, 2, ... in the order create_new makes them; a
\* caller names a session by <<id>> and passes <<>> for None. Id 0 is never made.
Put(store, id, state) ==
    [k \in DOMAIN store \cup {id} |-> IF k = id THEN state ELSE store[k]]

Without(store, id) == [k \in DOMAIN store \ {id} |-> store[k]]

Known(store, session_id) == session_id # <<>> /\ session_id[1] \in DOMAIN store

\* a returned value: the session id in it (0: none) and the rest of it
Ret(id, text) == [session_id |-> id, text |-> text]

\* what a call does: the store and the id count it leaves, how it ended
\* ("returned" or the ValueError it raised) and what it returned
Outcome(store, count, ended, value) ==
    [store |-> store, issued |-> count, ended |-> ended, value |-> value]

\* ADKAccessibilityOrchestrator.start_interactive_session
start_interactive_session(store, count) ==
    Outcome(Put(store, count + 1, NewState), count + 1, "returned", Ret(count + 1, "session_id"))

\* ADKAccessibilityOrchestrator.process_user_input; greeter_raises: whether
\* greet_and_delegate raises
process_user_input(store, count, session_id, user_input, greeter_raises) ==
    IF ~Known(store, session_id)
    THEN Outcome(store, count, "ValueError: not found", Ret(0, ""))
    ELSE LET id == session_id[1]
             after == Put(store, id, [store[id] EXCEPT !.user_input = <<user_input>>])
         IN  IF greeter_raises
             THEN Outcome(after, count, "raised", Ret(0, ""))
             ELSE Outcome(after, count, "returned", Ret(0, "response"))

\* what awaiting task_executor.execute_accessibility_test comes to: results with
\* a total_issues member, results without one, or an exception
ExecutorOutcomes == {"results", "results_without_total", "raises"}

\* ADKAccessibilityOrchestrator.execute_accessibility_test
execute_accessibility_test(store, count, url, session_id, executor) ==
    LET existing == Known(store, session_id)
        id == IF existing THEN session_id[1] ELSE count + 1
        opened == IF existing THEN store ELSE Put(store, id, NewState)
        made == IF existing THEN count ELSE count + 1
        results == [url |-> url, has_total |-> executor = "results"]
        stored == [opened[id] EXCEPT !.test_results = <<results>>,
                                     !.test_completed = <<TRUE>>]
        error_result(text) == [session_id |-> id, status |-> "error", error |-> text,
                               url |-> url]
    IN  CASE executor = "results" ->
                Outcome(Put(opened, id, stored), made, "returned", Ret(id, "completed"))
          \* results['total_issues'] raises KeyError after the results are stored
          [] executor = "results_without_total" ->
                Outcome(Put(opened, id,
                            [stored EXCEPT !.test_error = <<error_result("'total_issues'")>>]),
                        made, "returned", Ret(id, "error"))
          [] executor = "raises" ->
                Outcome(Put(opened, id,
                            [opened[id] EXCEPT !.test_error = <<error_result("boom")>>]),
                        made, "returned", Ret(id, "error"))

\* ADKAccessibilityOrchestrator.generate_comprehensive_report
generate_comprehensive_report(store, count, session_id) ==
    IF ~Known(store, session_id)
    THEN Outcome(store, count, "ValueError: not found", Ret(0, ""))
    ELSE IF store[session_id[1]].test_completed # <<TRUE>>
    THEN Outcome(store, count, "ValueError: no completed test", Ret(0, ""))
    ELSE Outcome(store, count, "returned", Ret(session_id[1], "report"))

\* A variant that empties the store.
cleanup_session_dropping_all(store, count, session_id) ==
    IF Known(store, session_id)
    THEN Outcome(<<>>, count, "returned", Ret(0, "True"))
    ELSE Outcome(store, count, "returned", Ret(0, "False"))

\* ADKAccessibilityOrchestrator.cleanup_session
cleanup_session(store, count, session_id) ==
    IF Known(store, session_id)
    THEN Outcome(Without(store, session_id[1]), count, "returned", Ret(0, "True"))
    ELSE Outcome(store, count, "returned", Ret(0, "False"))

NoCall == [op |-> "none"]

\* ADKAccessibilityOrchestrator.__init__
SessInit ==
    /\ active_sessions = <<>>
    /\ issued = 0
    /\ last_call = NoCall

----------------------------------------------------------------------------
(* AccessibilityAgentCard.validate and A2AServer.register_agent *)

A2AMethod(name, description) == [name |-> name, description |-> description]

\* the fields of a card that validate and register_agent read; a string that
\* is empty stands for every value that is false in a condition
AccessibilityAgentCard(name, description, version, compliance_levels, methods) ==
    [name |-> name, description |-> description, version |-> version,
     compliance_levels |-> compliance_levels, methods |-> methods]

valid_levels == {"A", "AA", "AAA"}

\* AccessibilityAgentCard.validate: the list of errors, each a tuple of its parts
validate(card) ==
    LET required(value, text) == IF value = "" THEN <<(<<text>>)>> ELSE <<>>
        of_method(method) ==
            (IF method.name = "" THEN <<(<<"Method name is required">>)>> ELSE <<>>)
            \o (IF method.description = ""
                THEN <<(<<"Method description is required for ", method.name>>)>>
                ELSE <<>>)
    IN  required(card.name, "Agent name is required")
        \o required(card.description, "Agent description is required")
        \o required(card.version, "Agent version is required")
        \o (IF \A i \in DOMAIN card.compliance_levels :
                   card.compliance_levels[i] \in valid_levels
            THEN <<>>
            ELSE <<(<<"Invalid compliance levels. Must be one of: ", "['A', 'AA', 'AAA']">>)>>)
        \o (IF card.methods = <<>>
            THEN <<(<<"At least one A2A method must be defined">>)>>
            ELSE Concat([i \in DOMAIN card.methods |-> of_method(card.methods[i])]))

\* f"{agent_card.name}.{method.name}", as the JSON text of the string
method_key(card, method) == "\"" \o card.name \o "." \o method.name \o "\""

\* the server's three registries and, after a call, whether it raised
Registry(agts, cards, handlers, raised) ==
    [agents |-> agts, agent_cards |-> cards, method_handlers |-> handlers,
     raised |-> raised]

\* A variant that stores the agent and the card before it validates the card.
register_agent_storing_first(reg, agent, card) ==
    IF validate(card) # <<>>
    THEN Registry(Put(reg.agents, card.name, agent), Put(reg.agent_cards, card.name, card),
                  reg.method_handlers, TRUE)
    ELSE Registry(Put(reg.agents, card.name, agent), Put(reg.agent_cards, card.name, card),
                  reg.method_handlers
                      \cup {method_key(card, card.methods[i]) : i \in DOMAIN card.methods},
                  FALSE)

\* A2AServer.register_agent
register_agent(reg, agent, card) ==
    IF validate(card) # <<>>
    THEN Registry(reg.agents, reg.agent_cards, reg.method_handlers, TRUE)
    ELSE Registry(Put(reg.agents, card.name, agent), Put(reg.agent_cards, card.name, card),
                  reg.method_handlers
                      \cup {method_key(card, card.methods[i]) : i \in DOMAIN card.methods},
                  FALSE)

\* the methods the server's handler factory knows by name, and one it delegates
MethodAnalyze == A2AMethod("analyze_accessibility", "Perform WCAG 2.2 analysis")
MethodCapabilities == A2AMethod("get_capabilities", "Get agent capabilities")

\* COLOR_CONTRAST_AGENT_CARD, with the two methods the server answers itself
ColorContrastCard ==
    AccessibilityAgentCard("color_contrast_agent", "Color contrast testing", "1.0.0",
                           <<"A", "AA", "AAA">>, <<MethodAnalyze, MethodCapabilities>>)

NoRegistration == [op |-> "none"]

\* A2AServer.__init__ followed by register_agent of the color contrast agent
RegInit ==
    /\ agents = Put(<<>>, "color_contrast_agent", "agent1")
    /\ agent_cards = Put(<<>>, "color_contrast_agent", ColorContrastCard)
    /\ last_register = NoRegistration

\* what the closure _create_method_handler returns keeps: the agent and the method
_create_method_handler(agent, method) == [agent |-> agent, method |-> method.name]

\* the loop of register_agent over the card's methods, from the i-th on: a key
\* that is already there is bound anew
RECURSIVE bind_handlers(_, _, _, _)
bind_handlers(bound, agent, card, i) ==
    IF i > Len(card.methods) THEN bound
    ELSE bind_handlers(Put(bound, method_key(card, card.methods[i]),
                           _create_method_handler(agent, card.methods[i])),
                       agent, card, i + 1)

\* A2AServer.list_agents: the name and the method names of every card
list_agents(cards) ==
    {[name |-> cards[n].name,
      methods |-> [i \in DOMAIN cards[n].methods |-> cards[n].methods[i].name]] :
        n \in DOMAIN cards}

\* the "method" member A2AProtocol.send_request puts in its request, as JSON text
request_method(target_name, method_name) ==
    "\"" \o target_name \o "." \o method_name \o "\""

NoClientCall == [op |-> "none"]

\* A2AServer.__init__ followed by register_agent of the color contrast agent
NameInit ==
    /\ handler_of = bind_handlers(<<>>, "agent1", ColorContrastCard, 1)
    /\ client_call = NoClientCall

----------------------------------------------------------------------------
(* The two compliance scores *)

\* round(num / den, 0) for num >= 0 and den > 0: to the nearest integer, a tie to
\* the even one
RoundHalfEven(num, den) ==
    LET q == num \div den
        r == num % den
    IN  IF 2 * r < den THEN q
        ELSE IF 2 * r > den THEN q + 1
        ELSE IF q % 2 = 0 THEN q ELSE q + 1

\* the weight of one issue in halves: 3, 2, 1 and 0.5 in the code
penalty_halves(issue) ==
    CASE issue.severity = "critical" -> 6
      [] issue.severity = "high" -> 4
      [] issue.severity = "medium" -> 2
      [] OTHER -> 1

RECURSIVE penalty_weight(_)
\* the sum of the weights of a list's issues, in halves
penalty_weight(list) ==
    IF list = <<>> THEN 0 ELSE penalty_halves(Head(list)) + penalty_weight(Tail(list))

\* A2AServer._calculate_compliance_score, in hundredths of a point:
\* round(max(0, 100 - penalty_weight / total_weight * 20), 2)
_calculate_compliance_score(list) ==
    IF list = <<>> THEN 10000
    ELSE LET total_weight == Len(list)
             halves == penalty_weight(list)
             \* 100 * (100 - (halves / 2) / total_weight * 20), times total_weight
             scaled == 10000 * total_weight - 1000 * halves
         IN  RoundHalfEven(IF scaled < 0 THEN 0 ELSE scaled, total_weight)

\* by_severity.get(severity, 0)
count_of(list, severity) ==
    Len(SelectSeq(list, LAMBDA issue : issue.severity = severity))

\* A variant of the summary score without the clamp.
compile_test_results_unclamped(list) ==
    IF list = <<>> THEN 100
    ELSE 100 - (count_of(list, "critical") * 20) - (count_of(list, "high") * 10)
             - (Len(list) * 2)

\* TaskExecutionAgent.compile_test_results: the compliance_score of the summary,
\* in points
compile_test_results(list) ==
    IF list = <<>> THEN 100
    ELSE LET score == 100 - (count_of(list, "critical") * 20)
                          - (count_of(list, "high") * 10) - (Len(list) * 2)
             capped == IF score > 100 THEN 100 ELSE score
         IN  IF capped < 0 THEN 0 ELSE capped

\* the issues scored: one of each severity
ScoreIssues ==
    { AccessibilityIssue("color_contrast", "LOW_TEXT_CONTRAST", s, <<"l", "o", "w">>,
                         <<"p.intro">>, <<GuideContrast>>) : s \in TestSeverity }

----------------------------------------------------------------------------
(* BaseAccessibilityAgent: issues_found, and the analyze of the two checkers *)

\* BaseAccessibilityAgent.add_issue
add_issue(found, issue) == Append(found, issue)

\* A variant that returns the issues of every other severity.
get_issues_of_other_severities(found, severity) ==
    SelectSeq(found, LAMBDA issue : issue.severity # severity)

\* BaseAccessibilityAgent.get_issues_by_severity
get_issues_by_severity(found, severity) ==
    SelectSeq(found, LAMBDA issue : issue.severity = severity)

\* BaseAccessibilityAgent.clear_issues
clear_issues(found) == <<>>

\* ColorContrastAgent and KeyboardFocusAgent, by self.name
CheckerNames == {"color_contrast_agent", "keyboard_focus_agent"}

\* the issue analyze adds when validate_url fails; the description is given by
\* its two parts
UnableToAccessIssue(name, url) ==
    AccessibilityIssue(name, "URL_VALIDATION", "critical",
                       <<"Unable to access URL: ", url>>, <<>>, <<>>)

\* the issue analyze adds when the page or one of the six tests raises
TestingErrorIssue(name, text) ==
    AccessibilityIssue(name, "TESTING_ERROR", "high",
                       <<"Error during testing: ", text>>, <<>>, <<>>)

\* what a checker's tests report through add_issue
CheckerIssues(name) ==
    { AccessibilityIssue(name, "LOW_TEXT_CONTRAST", "high", <<"l", "o", "w">>,
                         <<"p.intro">>, <<GuideContrast>>),
      AccessibilityIssue(name, "LOW_TEXT_CONTRAST", "high", <<"l", "o", "w">>,
                         <<"h1">>, <<GuideContrast>>),
      AccessibilityIssue(name, "NO_SKIP_LINKS", "low", <<"l", "o", "w">>,
                         <<>>, <<>>) }

\* what happens once the browser is driven: the launch raises, or the page is
\* opened and the tests add their findings until one of them raises, if any
BrowserRuns(name) ==
    {[kind |-> "launch_raises", added |-> <<>>, raises |-> FALSE]}
        \cup {[kind |-> "tests", added |-> l, raises |-> e] :
                l \in ListsUpTo(CheckerIssues(name), MaxOut), e \in BOOLEAN}

\* what an analyze call leaves and returns
Analyzed(found, raised, browser) ==
    [issues_found |-> found, returned |-> IF raised THEN <<>> ELSE found,
     raised |-> raised, browser |-> browser]

\* A variant of analyze that does not clear issues_found first.
analyze_without_clear(name, found, url, status, run) ==
    IF ~validate_url(status)
    THEN Analyzed(add_issue(found, UnableToAccessIssue(name, url)), FALSE, FALSE)
    ELSE IF run.kind = "launch_raises"
    THEN Analyzed(found, TRUE, TRUE)
    ELSE Analyzed(found \o run.added
                      \o (IF run.raises THEN <<TestingErrorIssue(name, "boom")>> ELSE <<>>),
                  FALSE, TRUE)

\* ColorContrastAgent.analyze and KeyboardFocusAgent.analyze; status: what the
\* probe of validate_url meets, run: what the browser does if it is driven
analyze(name, found, url, status, run) ==
    LET cleared == clear_issues(found)
    IN  IF ~validate_url(status)
        THEN Analyzed(add_issue(cleared, UnableToAccessIssue(name, url)), FALSE, FALSE)
        ELSE IF run.kind = "launch_raises"
        THEN Analyzed(cleared, TRUE, TRUE)
        ELSE Analyzed(cleared \o run.added
                          \o (IF run.raises THEN <<TestingErrorIssue(name, "boom")>>
                              ELSE <<>>),
                      FALSE, TRUE)

----------------------------------------------------------------------------
(* A2AServer.broadcast_to_connections *)

\* the set of a list's elements
Members(list) == {list[i] : i \in DOMAIN list}

\* The for loop runs without suspending over the entries whose ws.closed is true:
\* the first position of the list, from a position on, whose connection is open,
\* or 0 when the iterator is exhausted
NextOpen(list, from, shut) ==
    LET open == {i \in DOMAIN list : i >= from /\ list[i] \notin shut}
    IN  IF open = {} THEN 0 ELSE SetMin(open)

\* a broadcast suspended in ws.send_str to the connection at a position of
\* self.active_connections; kept is the local list active_connections, at_start
\* and attempted record the connections the list held at the call and those sent
\* to, and failed those whose send raised in this broadcast or an earlier one
Sending(index, ws, kept, at_start, attempted, failed) ==
    [pc |-> "sending", index |-> index, ws |-> ws, kept |-> kept,
     at_start |-> at_start, attempted |-> attempted, failed |-> failed]

\* a broadcast that has returned, with what it stored in self.active_connections
\* and the handlers running and the connections closed at that moment
Done(kept, at_start, attempted, failed, running, shut) ==
    [pc |-> "done", kept |-> kept, at_start |-> at_start, attempted |-> attempted,
     failed |-> failed, running |-> running, shut |-> shut]

\* the connections whose send raised in a broadcast so far
FailedBy(b) == IF b.pc = "idle" THEN {} ELSE b.failed

\* The loop from a position on: it suspends in the send to the next open
\* connection, or it ends and the local list is stored.
broadcast_loop(list, from, kept, at_start, attempted, failed, running, shut) ==
    LET i == NextOpen(list, from, shut)
    IN  IF i # 0
        THEN [bc |-> Sending(i, list[i], kept, at_start, attempted \cup {list[i]}, failed),
              active_connections |-> list]
        ELSE [bc |-> Done(kept, at_start, attempted, failed, running, shut),
              active_connections |-> kept]

----------------------------------------------------------------------------
(* AccessibilityCoordinatorAgent.analyze: the invocations of one call *)

\* an invocation: <<"remote", k>> is the k-th task given to asyncio.gather,
\* <<"local", i>> the call of the i-th sub-agent
RemoteInvocations(handles) == {<<"remote", k>> : k \in DOMAIN RemoteTasks(handles)}

LocalInvocations == {<<"local", i>> : i \in DOMAIN sub_agents}

\* the entries of the completion log that are remote invocations, in its order
RemoteEntries(done) == SelectSeq(done, LAMBDA e : e.inv[1] = "remote")

\* A variant of gather that hands the results back in the order the tasks ended.
gather_in_completion_order(tasks, done) ==
    [k \in DOMAIN tasks |-> RemoteEntries(done)[k].result]

\* asyncio.gather(*remote_tasks): the results in the order of the tasks
gather(tasks, done) ==
    [k \in DOMAIN tasks |->
        LET e == CHOOSE x \in Members(done) : x.inv = <<"remote", k>>
        IN  e.result]

\* the loop over remote_results: every result that is a list extends all_issues
ExtendWithResults(list, results) ==
    list \o Concat([k \in DOMAIN results |-> results[k].issues])

----------------------------------------------------------------------------
(* The constructors of the agent classes *)

Class(module, name) == [module |-> module, name |-> name]

CoordinatorClass == Class("adk_coordinator", "AccessibilityCoordinatorAgent")

\* The names a module binds to agent classes, in the order its import and class
\* statements run.
ModuleBindings(module) ==
    CASE module = "adk_coordinator" ->
            << <<"A2AProtocol", Class("a2a_protocol", "A2AProtocol")>>,
               <<"ColorContrastAgent", Class("color_contrast_agent", "ColorContrastAgent")>>,
               <<"KeyboardFocusAgent", Class("keyboard_focus_agent", "KeyboardFocusAgent")>>,
               <<"GreeterAgent", Class("greeter_agent", "GreeterAgent")>>,
               <<"TaskExecutionAgent", Class("task_execution_agent", "TaskExecutionAgent")>>,
               <<"AccessibilityCoordinatorAgent", CoordinatorClass>>,
               <<"GreeterAgent", Class("adk_coordinator", "GreeterAgent")>>,
               <<"TaskExecutionAgent", Class("adk_coordinator", "TaskExecutionAgent")>> >>
      [] module = "adk_orchestrator" ->
            << <<"AccessibilityCoordinatorAgent", CoordinatorClass>>,
               <<"GreeterAgent", Class("greeter_agent", "GreeterAgent")>>,
               <<"TaskExecutionAgent", Class("task_execution_agent", "TaskExecutionAgent")>> >>
      [] module = "task_execution_agent" ->
            << <<"ColorContrastAgent", Class("color_contrast_agent", "ColorContrastAgent")>>,
               <<"KeyboardFocusAgent", Class("keyboard_focus_agent", "KeyboardFocusAgent")>> >>
      [] OTHER -> <<>>

\* A global name is looked up when the call runs, after the module has been
\* executed to its end: it is the class the name was bound to last.
Lookup(module, name) ==
    LET b == ModuleBindings(module)
    IN  b[SetMax({i \in DOMAIN b : b[i][1] = name})][2]

\* the classes an __init__ calls by name, in the order it calls them
Constructs(class) ==
    CASE class = CoordinatorClass -> <<"GreeterAgent", "TaskExecutionAgent", "A2AProtocol">>
      [] class = Class("adk_coordinator", "GreeterAgent") -> <<"AccessibilityCoordinatorAgent">>
      [] class = Class("adk_coordinator", "TaskExecutionAgent") ->
            <<"AccessibilityCoordinatorAgent">>
      [] class = Class("task_execution_agent", "TaskExecutionAgent") ->
            <<"ColorContrastAgent", "KeyboardFocusAgent">>
      [] class = Class("adk_orchestrator", "ADKAccessibilityOrchestrator") ->
            <<"GreeterAgent", "TaskExecutionAgent", "AccessibilityCoordinatorAgent">>
      [] OTHER -> <<>>

\* a running constructor and the position of the next call it makes
Frame(class, next) == [class |-> class, next |-> next]

\* the constructions a caller starts: the orchestrator's, and those of the
\* registry's get_coordinator_agent, get_greeter_agent, get_task_executor_agent
\* and get_agent
ConstructionRoots ==
    { Class("adk_orchestrator", "ADKAccessibilityOrchestrator"),
      CoordinatorClass,
      Class("adk_coordinator", "GreeterAgent"),
      Class("adk_coordinator", "TaskExecutionAgent"),
      Class("color_contrast_agent", "ColorContrastAgent"),
      Class("keyboard_focus_agent", "KeyboardFocusAgent") }

----------------------------------------------------------------------------
(* TaskExecutionAgent: the test tool *)

\* urlparse: whether the text has a scheme and a network location
urlparse(url) ==
    CASE url = "https://a.example" -> [scheme |-> TRUE, netloc |-> TRUE]
      [] url = "a.example" -> [scheme |-> FALSE, netloc |-> FALSE]
      [] url = "https://" -> [scheme |-> TRUE, netloc |-> FALSE]

\* what requests.head does: raises, or answers with a status code
HeadOutcomes ==
    {[raised |-> TRUE, status_code |-> 0]}
        \cup {[raised |-> FALSE, status_code |-> c] : c \in {200, 399, 400, 404, 500}}

\* The dictionary validate_url returns; <<>> stands for a key the dictionary
\* does not have.
task_validate_url(url, head) ==
    LET parsed == urlparse(url)
    IN  IF ~parsed.scheme \/ ~parsed.netloc
        THEN [valid |-> FALSE, error |-> <<"Invalid URL format">>, status_code |-> <<>>]
        ELSE IF head.raised
        THEN [valid |-> FALSE, error |-> <<"connection failed">>, status_code |-> <<>>]
        ELSE [valid |-> head.status_code < 400, error |-> <<>>,
              status_code |-> <<head.status_code>>]

\* what a checker's analyze_accessibility does: raises, or returns issues, of
\* which the summary reads the severity
TaskCheckerOutcomes ==
    {[raised |-> TRUE, issues |-> <<>>]}
        \cup {[raised |-> FALSE, issues |-> l] :
                 l \in ListsUpTo({[severity |-> "critical"], [severity |-> "low"]}, 1)}

task_compliance_score(found) ==
    IF found = <<>> THEN 100
    ELSE LET score == 100 - count_of(found, "critical") * 20
                          - count_of(found, "high") * 10 - Len(found) * 2
         IN  IF score < 0 THEN 0 ELSE IF score > 100 THEN 100 ELSE score

TaskResult(raised, success, error, invoked, score) ==
    [raised |-> raised, success |-> success, error |-> error, invoked |-> invoked,
     compliance_score |-> score]

\* the checkers the try block runs, in order, for the requested test types
RequestedCheckers(test_types) ==
    (IF In("color_contrast", test_types) \/ In("all", test_types)
     THEN <<"color_contrast">> ELSE <<>>)
    \o (IF In("keyboard_focus", test_types) \/ In("all", test_types)
        THEN <<"keyboard_focus">> ELSE <<>>)

\* the try block: the checkers run in order until one raises
RECURSIVE RunCheckers(_, _, _, _)
RunCheckers(names, outcome, invoked, found) ==
    IF names = <<>>
    THEN TaskResult("", TRUE, <<>>, invoked, <<task_compliance_score(found)>>)
    ELSE LET o == outcome[Head(names)]
         IN  IF o.raised
             THEN TaskResult("", FALSE, <<"checker failed">>, Append(invoked, Head(names)),
                             <<>>)
             ELSE RunCheckers(Tail(names), outcome, Append(invoked, Head(names)),
                              found \o o.issues)

\* test_types is <<>> when the caller passed none
task_execute_accessibility_test(url, test_types, head, outcome) ==
    LET types == IF test_types = <<>> THEN <<"all">> ELSE test_types[1]
        validation == task_validate_url(url, head)
    IN  IF ~validation.valid
        THEN IF validation.error = <<>>
             THEN TaskResult("KeyError", FALSE, <<>>, <<>>, <<>>)
             ELSE TaskResult("", FALSE,
                             <<"URL validation failed: " \o validation.error[1]>>,
                             <<>>, <<>>)
        ELSE RunCheckers(RequestedCheckers(types), outcome, <<>>, <<>>)

----------------------------------------------------------------------------
(* The module's agent cards as the listing shows them *)

\* the capabilities __post_init__ gives a card that was built with none
DefaultTestingCapabilities ==
    <<"color_contrast_analysis", "keyboard_navigation_testing",
      "screen_reader_compatibility", "aria_validation", "semantic_structure_analysis",
      "focus_management_testing">>

\* A card of the default agent_type; testing_capabilities is <<>> for None.
TesterCard(name, testing_capabilities) ==
    [name |-> name, agent_type |-> "accessibility_tester",
     testing_capabilities |-> IF testing_capabilities = <<>>
                              THEN DefaultTestingCapabilities
                              ELSE testing_capabilities[1]]

\* COORDINATOR_AGENT_CARD, COLOR_CONTRAST_AGENT_CARD, KEYBOARD_FOCUS_AGENT_CARD,
\* GREETER_AGENT_CARD and TASK_EXECUTION_AGENT_CARD
ModuleCards ==
    { TesterCard("accessibility_coordinator",
                 << <<"comprehensive_accessibility_analysis", "multi_agent_coordination",
                      "wcag_compliance_reporting", "issue_prioritization",
                      "remediation_recommendations">> >>),
      TesterCard("color_contrast_agent",
                 << <<"color_contrast_analysis", "visual_accessibility_testing",
                      "wcag_aa_aaa_compliance", "color_blindness_simulation">> >>),
      TesterCard("keyboard_focus_agent",
                 << <<"keyboard_navigation_testing", "focus_management_validation",
                      "tab_order_analysis", "focus_trap_detection",
                      "skip_link_validation">> >>),
      TesterCard("accessibility_greeter",
                 << <<"user_interaction_management", "requirement_gathering",
                      "workflow_initiation", "task_delegation">> >>),
      TesterCard("accessibility_task_executor",
                 << <<"task_coordination", "workflow_management", "result_aggregation",
                      "error_handling", "report_generation">> >>) }

\* the entry list_agents makes of a card
agent_info_of(card) ==
    AgentInfo(<<card.name>>, <<card.agent_type>>, <<card.testing_capabilities>>)

\* AccessibilityCoordinatorAgent.discover_remote_agents: the sweep it asks for
discover_remote_agents(known, answers, time) ==
    discover_agents(known, DiscoveryEndpoints, answers, "accessibility_tester",
                    <<BothCapabilities>>, time)

----------------------------------------------------------------------------
(* AccessibilityAgentCard.to_json and from_json *)

\* Python values, each with its type
PyStr(v) == [py |-> "str", v |-> v]
PyList(items) == [py |-> "list", items |-> items]
PyDict(entries) == [py |-> "dict", entries |-> entries]
Datetime(date, time, microsecond) ==
    [py |-> "datetime", date |-> date, time |-> time, microsecond |-> microsecond]
MethodObject(name, description, params, returns) ==
    [py |-> "A2AMethod", name |-> name, description |-> description,
     params |-> params, returns |-> returns]

\* the card object: the fields of the dataclass after __post_init__
CardObject(name, compliance_levels, testing_capabilities, methods, created_at,
           updated_at) ==
    [py |-> "AccessibilityAgentCard",
     name |-> PyStr(name),
     description |-> PyStr("Accessibility testing"),
     version |-> PyStr("1.0.0"),
     protocol_version |-> PyStr("1.0.0"),
     agent_type |-> PyStr("accessibility_tester"),
     wcag_version |-> PyStr("2.2"),
     compliance_levels |-> compliance_levels,
     testing_capabilities |-> testing_capabilities,
     supported_browsers |-> PyList(<<PyStr("chromium"), PyStr("firefox"), PyStr("webkit")>>),
     methods |-> methods,
     created_at |-> created_at,
     updated_at |-> updated_at]

\* the fields of an object as a dict
FieldsOf(object) == [k \in DOMAIN object \ {"py"} |-> object[k]]

\* dataclasses.asdict: a dict of the fields, the dataclass objects within lists
\* turned into dicts as well; other values are copied
asdict(object) ==
    LET plain(value) ==
            IF value.py = "list"
            THEN PyList([i \in DOMAIN value.items |->
                            IF value.items[i].py = "A2AMethod"
                            THEN PyDict(FieldsOf(value.items[i]))
                            ELSE value.items[i]])
            ELSE value
    IN  PyDict([k \in DOMAIN FieldsOf(object) |-> plain(object[k])])

\* A variant of isoformat that stops at the seconds.
isoformat_to_seconds(dt) == PyStr(<<dt.date, "T", dt.time>>)

\* datetime.isoformat: the text in its parts; the fraction is written only when
\* the microsecond is not zero
isoformat(dt) ==
    IF dt.microsecond = 0
    THEN PyStr(<<dt.date, "T", dt.time>>)
    ELSE PyStr(<<dt.date, "T", dt.time, ".", dt.microsecond>>)

\* datetime.fromisoformat
fromisoformat(text) ==
    Datetime(text.v[1], text.v[3], IF Len(text.v) = 5 THEN text.v[5] ELSE 0)

\* json.dumps: the JSON document of a value of strings, lists and dicts
RECURSIVE json_dumps(_)
json_dumps(value) ==
    CASE value.py = "str" -> [js |-> "string", v |-> value.v]
      [] value.py = "list" ->
            [js |-> "array", items |-> [i \in DOMAIN value.items |->
                                           json_dumps(value.items[i])]]
      [] value.py = "dict" ->
            [js |-> "object", members |-> [k \in DOMAIN value.entries |->
                                              json_dumps(value.entries[k])]]

\* json.loads
RECURSIVE json_loads(_)
json_loads(doc) ==
    CASE doc.js = "string" -> PyStr(doc.v)
      [] doc.js = "array" ->
            PyList([i \in DOMAIN doc.items |-> json_loads(doc.items[i])])
      [] doc.js = "object" ->
            PyDict([k \in DOMAIN doc.members |-> json_loads(doc.members[k])])

\* AccessibilityAgentCard.to_json
to_json(card) ==
    LET data == asdict(card).entries
        with_text == [k \in DOMAIN data |->
                         IF k \in {"created_at", "updated_at"} /\ data[k].py = "datetime"
                         THEN isoformat(data[k])
                         ELSE IF k = "methods"
                         THEN PyList([i \in DOMAIN card.methods.items |->
                                         PyDict(FieldsOf(card.methods.items[i]))])
                         ELSE data[k]]
    IN  json_dumps(PyDict(with_text))

\* cls(**data): the object of the keyword arguments
FromKeywords(class, entries) ==
    [k \in DOMAIN entries \cup {"py"} |-> IF k = "py" THEN class ELSE entries[k]]

\* AccessibilityAgentCard.from_json
from_json(doc) ==
    LET data == json_loads(doc).entries
        rebuilt == [k \in DOMAIN data |->
                       IF k \in {"created_at", "updated_at"}
                       THEN fromisoformat(data[k])
                       ELSE IF k = "methods"
                       THEN PyList([i \in DOMAIN data[k].items |->
                                       FromKeywords("A2AMethod", data[k].items[i].entries)])
                       ELSE data[k]]
    IN  FromKeywords("AccessibilityAgentCard", rebuilt)

----------------------------------------------------------------------------
(* Initial values *)

\* no broadcast under way, every connection open
BcInit ==
    /\ bc = [pc |-> "idle"]
    /\ closed = {}

\* BaseAccessibilityAgent.__init__
ChkInit ==
    /\ checker_issues = <<>>
    /\ checker_call = [op |-> "none", checker |-> "color_contrast_agent"]

FanInit ==
    /\ in_flight = {}
    /\ completion = <<>>

\* nothing under construction
CtorInit ==
    /\ ctor_stack = <<>>
    /\ ctor_state = "idle"

TaskInit == task_call = [op |-> "none"]

PartInit == RegInit /\ BcInit /\ ChkInit /\ FanInit /\ CtorInit /\ TaskInit /\ NameInit

ListsIdle ==
    /\ issues = <<>>
    /\ output = <<>>
    /\ op = "none"

\* AccessibilityCoordinatorAgent.__init__
CoordInit ==
    /\ pc = "idle"
    /\ runs = 0
    /\ url_status = "200"
    /\ remote_agents = <<>>
    /\ remote_calls = <<>>
    /\ all_issues = <<>>
    /\ next_sub = 1
    /\ outcomes = <<>>
    /\ test_results = <<>>
    /\ issues_found = <<>>

----------------------------------------------------------------------------
(* The list functions applied to bounded inputs *)

InitDedup ==
    /\ issues \in ListsUpTo(DedupIssues, MaxDedupLen)
    /\ output = <<>>
    /\ op = "none"
    /\ CoordInit
    /\ RpcInit
    /\ ProtoInit
    /\ SessInit /\ PartInit

Deduplicate ==
    /\ op = "none"
    /\ output' = _deduplicate_issues(issues)
    /\ op' = "dedup"
    /\ UNCHANGED <<issues, coordVars, rpcVars, protoVars, sessVars, partVars>>

NextDedup == Deduplicate

SpecDedup == InitDedup /\ [][NextDedup]_vars

InitPrioritize ==
    /\ issues \in ListsUpTo(PrioIssues, MaxPrioLen)
    /\ output = <<>>
    /\ op = "none"
    /\ CoordInit
    /\ RpcInit
    /\ ProtoInit
    /\ SessInit /\ PartInit

Prioritize ==
    /\ op = "none"
    /\ output' = _prioritize_issues(issues)
    /\ op' = "prioritize"
    /\ UNCHANGED <<issues, coordVars, rpcVars, protoVars, sessVars, partVars>>

NextPrioritize == Prioritize

SpecPrioritize == InitPrioritize /\ [][NextPrioritize]_vars

----------------------------------------------------------------------------
(* AccessibilityCoordinatorAgent.analyze, one action per stretch between awaits *)

\* all_issues = [] and the await of discover_remote_agents, which stores what
\* discover_agents returned in self.remote_agents
AnalyzeStart ==
    /\ pc = "idle"
    /\ runs < MaxRuns
    /\ \E status \in ProbeOutcomes : url_status' = status
    /\ \E discovered \in ListsUpTo(RemoteHandles, 1) : remote_agents' = discovered
    /\ all_issues' = <<>>
    /\ remote_calls' = <<>>
    /\ outcomes' = <<>>
    /\ next_sub' = 1
    /\ pc' = "remote"
    /\ UNCHANGED <<runs, test_results, issues_found, listVars, rpcVars, protoVars, sessVars, partVars>>

\* the gather of the remote tasks and the loop that extends all_issues with
\* every result that is a list
AnalyzeRemote ==
    /\ pc = "remote"
    /\ LET tasks == RemoteTasks(remote_agents)
       IN  \E replies \in [DOMAIN tasks -> RemoteReplies] :
              LET results == [k \in DOMAIN tasks |->
                                 coordinate_with_remote_agent(
                                     tasks[k].agent, tasks[k].test_type, replies[k])]
              IN  /\ remote_calls' = results
                  /\ all_issues' =
                        all_issues \o Concat([k \in DOMAIN tasks |-> results[k].issues])
    /\ pc' = "local"
    /\ UNCHANGED <<runs, url_status, remote_agents, next_sub, outcomes,
                   test_results, issues_found, listVars, rpcVars, protoVars, sessVars, partVars>>

\* one iteration of the loop over self.sub_agents; after the last one the
\* merged list is deduplicated, prioritized, stored and returned
AnalyzeSubAgent ==
    /\ pc = "local"
    /\ next_sub <= Len(sub_agents)
    /\ \E outcome \in LocalOutcomes(sub_agents[next_sub]) :
          LET st == SubAgentBody([all_issues |-> all_issues, test_results |-> test_results],
                                 sub_agents[next_sub], outcome)
              nxt == AfterSubAgent(next_sub, outcome)
          IN  /\ outcomes' = Append(outcomes, outcome)
              /\ all_issues' = st.all_issues
              /\ test_results' = st.test_results
              /\ next_sub' = nxt
              /\ IF nxt > Len(sub_agents)
                 THEN /\ issues_found' = Merge(st.all_issues)
                      /\ runs' = runs + 1
                      /\ pc' = "idle"
                 ELSE UNCHANGED <<issues_found, runs, pc>>
    /\ UNCHANGED <<url_status, remote_agents, remote_calls, listVars, rpcVars, protoVars, sessVars, partVars>>

InitAnalyze == ListsIdle /\ CoordInit /\ RpcInit /\ ProtoInit /\ SessInit /\ PartInit

NextAnalyze == AnalyzeStart \/ AnalyzeRemote \/ AnalyzeSubAgent

SpecAnalyze == InitAnalyze /\ [][NextAnalyze]_vars

\* the last analyze call has returned
Returned == pc = "idle" /\ runs > 0

----------------------------------------------------------------------------
(* The server's requests *)

HttpRequest ==
    \E body \in Bodies :
        \E behaviour \in BehavioursFor(body, method_handlers) :
            LET r == handle_jsonrpc(body, behaviour, method_handlers)
            IN  /\ exchange' = [transport |-> "http", conn |-> "", body |-> body,
                                behaviour |-> behaviour, reply |-> r.reply,
                                handler_ran |-> r.handler_ran, closed |-> FALSE,
                                send_ok |-> TRUE]
                /\ prev_code' = CodeOf(exchange)
                /\ UNCHANGED <<method_handlers, active_connections, ws_running,
                               listVars, coordVars, protoVars, sessVars, partVars>>

\* ws.prepare and self.active_connections.append(ws)
WsConnect ==
    \E ws \in Connections \ ws_running :
        /\ active_connections' = Append(active_connections, ws)
        /\ ws_running' = ws_running \cup {ws}
        /\ UNCHANGED <<method_handlers, exchange, prev_code, listVars, coordVars, protoVars, sessVars, partVars>>

\* one text message on a running connection; an exception ends the loop and the
\* finally clause drops the connection
WsMessage ==
    \E ws \in ws_running, body \in Bodies, send_ok \in BOOLEAN :
        \E behaviour \in BehavioursFor(body, method_handlers) :
            LET r == ws_message(body, behaviour, send_ok, method_handlers)
            IN  /\ exchange' = [transport |-> "ws", conn |-> ws, body |-> body,
                                behaviour |-> behaviour, reply |-> r.reply,
                                handler_ran |-> r.handler_ran, closed |-> r.closed,
                                send_ok |-> send_ok]
                /\ prev_code' = CodeOf(exchange)
                /\ IF r.closed
                   THEN /\ active_connections' = RemoveConnection(active_connections, ws)
                        /\ ws_running' = ws_running \ {ws}
                   ELSE UNCHANGED <<active_connections, ws_running>>
                /\ UNCHANGED <<method_handlers, listVars, coordVars, protoVars, sessVars, partVars>>

\* the client closes: the loop ends and the finally clause drops the connection
WsClose ==
    \E ws \in ws_running :
        /\ active_connections' = RemoveConnection(active_connections, ws)
        /\ ws_running' = ws_running \ {ws}
        /\ UNCHANGED <<method_handlers, exchange, prev_code, listVars, coordVars, protoVars, sessVars, partVars>>

InitRpc == ListsIdle /\ CoordInit /\ RpcInit /\ ProtoInit /\ SessInit /\ PartInit

NextRpc == HttpRequest \/ WsConnect \/ WsMessage \/ WsClose

SpecRpc == InitRpc /\ [][NextRpc]_vars

----------------------------------------------------------------------------
(* One discovery sweep on a new A2AProtocol *)

InitDiscover ==
    /\ ListsIdle /\ CoordInit /\ RpcInit /\ SessInit /\ PartInit
    /\ now = 0
    /\ known_agents = <<>>
    /\ sweep_input \in [answers : [EndpointSet -> DiscoveryAnswers],
                        capabilities : CapabilityFilters]
    /\ last_op = NoOp

DiscoverSweep ==
    /\ last_op = NoOp
    /\ LET r == discover_agents(known_agents, DiscoveryEndpoints, sweep_input.answers,
                                AgentType, sweep_input.capabilities, now)
       IN  /\ known_agents' = r.known_agents
           /\ last_op' = [op |-> "discover_agents", raised |-> FALSE,
                          returned |-> r.discovered_agents, probed |-> r.probed,
                          before |-> known_agents]
    /\ UNCHANGED <<now, sweep_input, listVars, coordVars, rpcVars, sessVars, partVars>>

NextDiscover == DiscoverSweep

SpecDiscover == InitDiscover /\ [][NextDiscover]_vars

----------------------------------------------------------------------------
(* The registry of an A2AProtocol over time *)

MaxTime == 6

\* what the endpoints answer in the sweeps of this specification
RegistryAnswers ==
    { [kind |-> "timeout"],
      [kind |-> "ok", agents |-> <<AgentInfo(<<"a">>, <<AgentType>>, <<BothCapabilities>>)>>],
      [kind |-> "ok", agents |-> <<AgentInfo(<<"b">>, <<AgentType>>, <<BothCapabilities>>)>>] }

\* the clock moves on
Tick ==
    /\ now < MaxTime
    /\ now' = now + 1
    /\ UNCHANGED <<known_agents, sweep_input, last_op, listVars, coordVars, rpcVars, sessVars, partVars>>

Discover ==
    \E answers \in [EndpointSet -> RegistryAnswers] :
        LET r == discover_agents(known_agents, DiscoveryEndpoints, answers, AgentType,
                                 <<BothCapabilities>>, now)
        IN  /\ known_agents' = r.known_agents
            /\ last_op' = [op |-> "discover_agents", raised |-> FALSE,
                           returned |-> r.discovered_agents, probed |-> r.probed,
                           at |-> now]
            /\ UNCHANGED <<now, sweep_input, listVars, coordVars, rpcVars, sessVars, partVars>>

SendRequest ==
    \E n \in DOMAIN known_agents, reply \in RemoteReplies :
        LET r == send_request(reply)
        IN  /\ last_op' = [op |-> "send_request", target |-> n, reply |-> reply,
                           raised |-> r.raised, returned |-> r.result,
                           seen_before |-> known_agents[n].last_seen, at |-> now]
            /\ UNCHANGED <<now, known_agents, sweep_input, listVars, coordVars, rpcVars, sessVars, partVars>>

CoordinateAccessibilityTest ==
    \E n \in DOMAIN known_agents, reply \in RemoteReplies :
        LET r == coordinate_accessibility_test(known_agents[n], reply, now)
        IN  /\ known_agents' = WithHandle(known_agents, r.handle)
            /\ last_op' = [op |-> "coordinate_accessibility_test", target |-> n,
                           reply |-> reply, raised |-> r.raised, returned |-> r.result,
                           seen_before |-> known_agents[n].last_seen, at |-> now]
            /\ UNCHANGED <<now, sweep_input, listVars, coordVars, rpcVars, sessVars, partVars>>

PingAgent ==
    \E n \in DOMAIN known_agents, outcome \in PingOutcomes :
        LET r == ping_agent(known_agents[n], outcome, now)
        IN  /\ known_agents' = WithHandle(known_agents, r.handle)
            /\ last_op' = [op |-> "ping_agent", target |-> n, outcome |-> outcome,
                           raised |-> r.raised, returned |-> r.result,
                           seen_before |-> known_agents[n].last_seen, at |-> now]
            /\ UNCHANGED <<now, sweep_input, listVars, coordVars, rpcVars, sessVars, partVars>>

InitRegistry == ListsIdle /\ CoordInit /\ RpcInit /\ ProtoInit /\ SessInit /\ PartInit

NextRegistry ==
    Tick \/ Discover \/ SendRequest \/ CoordinateAccessibilityTest \/ PingAgent

SpecRegistry == InitRegistry /\ [][NextRegistry]_vars

----------------------------------------------------------------------------
(* The calls on an orchestrator *)

MaxSessions == 2

Urls == {"https://a.example"}

UserInputs == {"test https://a.example"}

\* the session ids a caller passes: None, an id never made, the ids made so far
CallerIds == {<<>>} \cup {<<k>> : k \in 0..issued}

\* the call leaves the store and the id count r holds
Called(name, session_id, r) ==
    /\ r.issued <= MaxSessions
    /\ active_sessions' = r.store
    /\ issued' = r.issued
    /\ last_call' = [op |-> name, session_id |-> session_id, ended |-> r.ended,
                     value |-> r.value]
    /\ UNCHANGED <<listVars, coordVars, rpcVars, protoVars, partVars>>

StartInteractiveSession ==
    Called("start_interactive_session", <<>>,
           start_interactive_session(active_sessions, issued))

ProcessUserInput ==
    \E session_id \in CallerIds \ {<<>>}, user_input \in UserInputs,
       greeter_raises \in BOOLEAN :
        Called("process_user_input", session_id,
               process_user_input(active_sessions, issued, session_id, user_input,
                                  greeter_raises))

ExecuteAccessibilityTest ==
    \E session_id \in CallerIds, url \in Urls, executor \in ExecutorOutcomes :
        Called("execute_accessibility_test", session_id,
               execute_accessibility_test(active_sessions, issued, url, session_id,
                                          executor))

GenerateComprehensiveReport ==
    \E session_id \in CallerIds \ {<<>>} :
        Called("generate_comprehensive_report", session_id,
               generate_comprehensive_report(active_sessions, issued, session_id))

CleanupSession ==
    \E session_id \in CallerIds \ {<<>>} :
        Called("cleanup_session", session_id,
               cleanup_session(active_sessions, issued, session_id))

InitSessions == ListsIdle /\ CoordInit /\ RpcInit /\ ProtoInit /\ SessInit /\ PartInit

NextSessions ==
    \/ StartInteractiveSession
    \/ ProcessUserInput
    \/ ExecuteAccessibilityTest
    \/ GenerateComprehensiveReport
    \/ CleanupSession

SpecSessions == InitSessions /\ [][NextSessions]_vars

----------------------------------------------------------------------------
(* Registrations on a new A2AServer *)

AgentObjects == {"agent1", "agent2"}

CardNames == {"", "color_contrast_agent", "keyboard_focus_agent"}

CardLevels == {<<>>, <<"A", "AA", "AAA">>, <<"AA", "AAAA">>}

CardMethods ==
    {<<>>, <<MethodAnalyze>>, <<MethodAnalyze, MethodCapabilities>>,
     <<A2AMethod("", "Unnamed")>>, <<MethodAnalyze, A2AMethod("validate_aria", "")>>}

\* the cards offered: those with no defective field and those with exactly one
RegisterCards ==
    LET defect(flag) == IF flag THEN 1 ELSE 0
        all == {AccessibilityAgentCard(n, d, v, l, m) :
                    n \in CardNames, d \in {"", "Color contrast testing"},
                    v \in {"", "1.0.0"}, l \in CardLevels, m \in CardMethods}
    IN  {c \in all :
            defect(c.name = "") + defect(c.description = "") + defect(c.version = "")
                + defect(c.compliance_levels = <<"AA", "AAAA">>)
                + defect(c.methods \notin {<<MethodAnalyze>>,
                                           <<MethodAnalyze, MethodCapabilities>>}) <= 1}

RegisterAgent ==
    \E agent \in AgentObjects, card \in RegisterCards :
        LET r == register_agent(Registry(agents, agent_cards, method_handlers, FALSE),
                                agent, card)
        IN  /\ agents' = r.agents
            /\ agent_cards' = r.agent_cards
            /\ method_handlers' = r.method_handlers
            /\ handler_of' = IF r.raised THEN handler_of
                             ELSE bind_handlers(handler_of, agent, card, 1)
            /\ last_register' = [op |-> "register_agent", agent |-> agent, card |-> card,
                                 raised |-> r.raised]
            /\ UNCHANGED <<active_connections, ws_running, exchange, prev_code,
                           listVars, coordVars, protoVars, sessVars,
                           bcVars, chkVars, fanVars, ctorVars, taskVars, client_call>>

\* A2AServer.__init__
InitRegister ==
    /\ ListsIdle /\ CoordInit /\ ProtoInit /\ SessInit /\ BcInit /\ ChkInit /\ FanInit
    /\ CtorInit /\ TaskInit
    /\ agents = <<>>
    /\ agent_cards = <<>>
    /\ method_handlers = {}
    /\ handler_of = <<>>
    /\ client_call = NoClientCall
    /\ last_register = NoRegistration
    /\ active_connections = <<>>
    /\ ws_running = {}
    /\ exchange = [transport |-> "none", reply |-> NoReply]
    /\ prev_code = 0

NextRegister == RegisterAgent

SpecRegister == InitRegister /\ [][NextRegister]_vars

----------------------------------------------------------------------------
(* The scores of bounded issue lists *)

InitScore ==
    /\ issues \in ListsUpTo(ScoreIssues, MaxScoreLen)
    /\ output = <<>>
    /\ op = "none"
    /\ CoordInit /\ RpcInit /\ ProtoInit /\ SessInit /\ PartInit

\* both scores of the list
Score ==
    /\ op = "none"
    /\ output' = <<[server |-> _calculate_compliance_score(issues),
                    summary |-> compile_test_results(issues)]>>
    /\ op' = "score"
    /\ UNCHANGED <<issues, coordVars, rpcVars, protoVars, sessVars, partVars>>

NextScore == Score

SpecScore == InitScore /\ [][NextScore]_vars

----------------------------------------------------------------------------
(* The calls on one checker *)

AddIssue ==
    /\ Len(checker_issues) < MaxFound
    /\ \E issue \in CheckerIssues(checker_call.checker) :
          /\ checker_issues' = add_issue(checker_issues, issue)
          /\ checker_call' = [op |-> "add_issue", checker |-> checker_call.checker,
                              issue |-> issue]
    /\ UNCHANGED <<listVars, coordVars, rpcVars, protoVars, sessVars,
                   regVars, bcVars, fanVars, ctorVars, taskVars, nameVars>>

ClearIssues ==
    /\ checker_issues' = clear_issues(checker_issues)
    /\ checker_call' = [op |-> "clear_issues", checker |-> checker_call.checker]
    /\ UNCHANGED <<listVars, coordVars, rpcVars, protoVars, sessVars,
                   regVars, bcVars, fanVars, ctorVars, taskVars, nameVars>>

GetIssuesBySeverity ==
    /\ \E severity \in TestSeverity :
          checker_call' = [op |-> "get_issues_by_severity",
                           checker |-> checker_call.checker, severity |-> severity,
                           returned |-> get_issues_by_severity(checker_issues, severity)]
    /\ UNCHANGED <<checker_issues, listVars, coordVars, rpcVars, protoVars, sessVars,
                   regVars, bcVars, fanVars, ctorVars, taskVars, nameVars>>

Analyze ==
    /\ \E url \in Urls, status \in ProbeOutcomes :
          \E run \in BrowserRuns(checker_call.checker) :
              LET r == analyze(checker_call.checker, checker_issues, url, status, run)
              IN  /\ checker_issues' = r.issues_found
                  /\ checker_call' = [op |-> "analyze", checker |-> checker_call.checker,
                                      url |-> url, status |-> status, run |-> run,
                                      had |-> Len(checker_issues),
                                      returned |-> r.returned, raised |-> r.raised,
                                      browser |-> r.browser]
    /\ UNCHANGED <<listVars, coordVars, rpcVars, protoVars, sessVars,
                   regVars, bcVars, fanVars, ctorVars, taskVars, nameVars>>

\* a new checker of either class
InitChecker ==
    /\ ListsIdle /\ CoordInit /\ RpcInit /\ ProtoInit /\ SessInit
    /\ RegInit /\ BcInit /\ FanInit /\ CtorInit /\ TaskInit /\ NameInit
    /\ checker_issues = <<>>
    /\ \E name \in CheckerNames : checker_call = [op |-> "none", checker |-> name]

NextChecker == AddIssue \/ ClearIssues \/ GetIssuesBySeverity \/ Analyze

SpecChecker == InitChecker /\ [][NextChecker]_vars

----------------------------------------------------------------------------
(* Broadcasts among connections that open and close *)

\* connections are numbered in the order they are accepted; none is accepted twice
ConnectionIds == 1..MaxConnections

\* websocket_handler up to its loop: ws.prepare and the append
HandlerOpen ==
    \E ws \in ConnectionIds \ (ws_running \cup closed) :
        /\ active_connections' = Append(active_connections, ws)
        /\ ws_running' = ws_running \cup {ws}
        /\ UNCHANGED <<method_handlers, exchange, prev_code, bc, closed,
                       listVars, coordVars, protoVars, sessVars, regVars, chkVars, fanVars, ctorVars, taskVars, nameVars>>

\* the peer's close frame arrives: ws.closed becomes true while the handler is
\* still suspended in the closing handshake
HandlerClosing ==
    \E ws \in ws_running \ closed :
        /\ closed' = closed \cup {ws}
        /\ UNCHANGED <<rpcVars, bc, listVars, coordVars, protoVars, sessVars,
                       regVars, chkVars, fanVars, ctorVars, taskVars, nameVars>>

\* the handler's loop ends, by the close or by an exception, and its finally
\* clause removes the connection if the list holds it
HandlerExit ==
    \E ws \in ws_running :
        /\ active_connections' =
              IF ws \in Members(active_connections)
              THEN RemoveConnection(active_connections, ws)
              ELSE active_connections
        /\ ws_running' = ws_running \ {ws}
        /\ closed' = closed \cup {ws}
        /\ UNCHANGED <<method_handlers, exchange, prev_code, bc,
                       listVars, coordVars, protoVars, sessVars, regVars, chkVars, fanVars, ctorVars, taskVars, nameVars>>

\* broadcast_to_connections from its call to its first suspension
BroadcastStart ==
    /\ bc.pc # "sending"
    /\ IF active_connections = <<>>
       THEN /\ bc' = Done(<<>>, {}, {}, FailedBy(bc), ws_running, closed)
            /\ UNCHANGED active_connections
       ELSE LET r == broadcast_loop(active_connections, 1, <<>>,
                                    Members(active_connections), {}, FailedBy(bc),
                                    ws_running, closed)
            IN  /\ bc' = r.bc
                /\ active_connections' = r.active_connections
    /\ UNCHANGED <<method_handlers, ws_running, exchange, prev_code, closed,
                   listVars, coordVars, protoVars, sessVars, regVars, chkVars, fanVars, ctorVars, taskVars, nameVars>>

\* the send the broadcast is suspended in returns or raises, and the loop goes
\* on from the next position of the list as it is now
BroadcastSendDone ==
    /\ bc.pc = "sending"
    /\ \E ok \in BOOLEAN :
          LET r == broadcast_loop(active_connections, bc.index + 1,
                                  IF ok THEN Append(bc.kept, bc.ws) ELSE bc.kept,
                                  bc.at_start, bc.attempted,
                                  IF ok THEN bc.failed ELSE bc.failed \cup {bc.ws},
                                  ws_running, closed)
          IN  /\ bc' = r.bc
              /\ active_connections' = r.active_connections
    /\ UNCHANGED <<method_handlers, ws_running, exchange, prev_code, closed,
                   listVars, coordVars, protoVars, sessVars, regVars, chkVars, fanVars, ctorVars, taskVars, nameVars>>

InitBroadcast ==
    /\ ListsIdle /\ CoordInit /\ RpcInit /\ ProtoInit /\ SessInit
    /\ RegInit /\ BcInit /\ ChkInit /\ FanInit /\ CtorInit /\ TaskInit /\ NameInit

NextBroadcast ==
    HandlerOpen \/ HandlerClosing \/ HandlerExit \/ BroadcastStart \/ BroadcastSendDone

SpecBroadcast == InitBroadcast /\ [][NextBroadcast]_vars

----------------------------------------------------------------------------
(* One analyze call, one action per start and end of an invocation *)

\* what a remote server answers in this specification
FanReplies == {r \in RemoteReplies : r.kind \in {"timeout", "ok"}}

\* all_issues = [], the discovery, and asyncio.gather making one task of every
\* remote coroutine
FanStart ==
    /\ pc = "idle"
    /\ \E discovered \in ListsUpTo(RemoteHandles, 1) :
          /\ remote_agents' = discovered
          /\ in_flight' = RemoteInvocations(discovered)
    /\ all_issues' = <<>>
    /\ remote_calls' = <<>>
    /\ outcomes' = <<>>
    /\ next_sub' = 1
    /\ completion' = <<>>
    /\ pc' = "remote"
    /\ UNCHANGED <<runs, url_status, test_results, issues_found, listVars, rpcVars,
                   protoVars, sessVars, regVars, bcVars, chkVars, ctorVars, taskVars, nameVars>>

\* one remote task ends, in any order
RemoteComplete ==
    /\ pc = "remote"
    /\ \E inv \in in_flight, reply \in FanReplies :
          LET task == RemoteTasks(remote_agents)[inv[2]]
              result == coordinate_with_remote_agent(task.agent, task.test_type, reply)
          IN  /\ in_flight' = in_flight \ {inv}
              /\ completion' = Append(completion,
                                      [inv |-> inv, reply |-> reply, result |-> result])
    /\ UNCHANGED <<pc, runs, url_status, remote_agents, remote_calls, all_issues,
                   next_sub, outcomes, test_results, issues_found, listVars, rpcVars,
                   protoVars, sessVars, regVars, bcVars, chkVars, ctorVars, taskVars, nameVars>>

\* every task has ended: the await of gather returns and the results extend
\* all_issues
GatherDone ==
    /\ pc = "remote"
    /\ in_flight = {}
    /\ LET results == gather(RemoteTasks(remote_agents), completion)
       IN  /\ remote_calls' = results
           /\ all_issues' = ExtendWithResults(all_issues, results)
    /\ pc' = "local"
    /\ UNCHANGED <<runs, url_status, remote_agents, next_sub, outcomes, test_results,
                   issues_found, in_flight, completion, listVars, rpcVars,
                   protoVars, sessVars, regVars, bcVars, chkVars, ctorVars, taskVars, nameVars>>

\* the loop over self.sub_agents calls the next sub-agent and awaits it
LocalStart ==
    /\ pc = "local"
    /\ next_sub <= Len(sub_agents)
    /\ in_flight = {}
    /\ in_flight' = {<<"local", next_sub>>}
    /\ UNCHANGED <<coordVars, completion, listVars, rpcVars,
                   protoVars, sessVars, regVars, bcVars, chkVars, ctorVars, taskVars, nameVars>>

\* the awaited sub-agent ends; after the last one the merged list is
\* deduplicated, prioritized, stored and returned
LocalFinish ==
    /\ pc = "local"
    /\ <<"local", next_sub>> \in in_flight
    /\ \E outcome \in LocalOutcomes(sub_agents[next_sub]) :
          LET st == SubAgentBody([all_issues |-> all_issues, test_results |-> test_results],
                                 sub_agents[next_sub], outcome)
              nxt == AfterSubAgent(next_sub, outcome)
          IN  /\ outcomes' = Append(outcomes, outcome)
              /\ completion' = Append(completion, [inv |-> <<"local", next_sub>>,
                                                   outcome |-> outcome])
              /\ in_flight' = {}
              /\ all_issues' = st.all_issues
              /\ test_results' = st.test_results
              /\ next_sub' = nxt
              /\ IF nxt > Len(sub_agents)
                 THEN /\ issues_found' = Merge(st.all_issues)
                      /\ runs' = runs + 1
                      /\ pc' = "returned"
                 ELSE UNCHANGED <<issues_found, runs, pc>>
    /\ UNCHANGED <<url_status, remote_agents, remote_calls, listVars, rpcVars,
                   protoVars, sessVars, regVars, bcVars, chkVars, ctorVars, taskVars, nameVars>>

InitFanOut == ListsIdle /\ CoordInit /\ RpcInit /\ ProtoInit /\ SessInit /\ PartInit

NextFanOut == FanStart \/ RemoteComplete \/ GatherDone \/ LocalStart \/ LocalFinish

SpecFanOut == InitFanOut /\ [][NextFanOut]_vars

\* the event loop runs every task that can run, and every invocation ends
SpecFanOutFair == SpecFanOut /\ WF_vars(NextFanOut)

----------------------------------------------------------------------------
(* Constructions, one action per call and return of an __init__ *)

Construct ==
    /\ ctor_state # "running"
    /\ \E root \in ConstructionRoots : ctor_stack' = <<Frame(root, 1)>>
    /\ ctor_state' = "running"
    /\ UNCHANGED <<listVars, coordVars, rpcVars, protoVars, sessVars,
                   regVars, bcVars, chkVars, fanVars, taskVars, nameVars>>

\* the running __init__ calls the next class; past the interpreter's limit the
\* call raises RecursionError, which no constructor catches
CallConstructor ==
    /\ ctor_state = "running"
    /\ LET top == ctor_stack[Len(ctor_stack)]
       IN  /\ top.next <= Len(Constructs(top.class))
           /\ IF Len(ctor_stack) >= RecursionLimit
              THEN /\ ctor_stack' = <<>>
                   /\ ctor_state' = "RecursionError"
              ELSE /\ ctor_stack' =
                         Append(ctor_stack,
                                Frame(Lookup(top.class.module,
                                             Constructs(top.class)[top.next]), 1))
                   /\ UNCHANGED ctor_state
    /\ UNCHANGED <<listVars, coordVars, rpcVars, protoVars, sessVars,
                   regVars, bcVars, chkVars, fanVars, taskVars, nameVars>>

\* the running __init__ has made its calls and returns to its caller
ReturnFromConstructor ==
    /\ ctor_state = "running"
    /\ LET n == Len(ctor_stack)
           top == ctor_stack[n]
       IN  /\ top.next > Len(Constructs(top.class))
           /\ IF n = 1
              THEN /\ ctor_stack' = <<>>
                   /\ ctor_state' = "returned"
              ELSE /\ ctor_stack' =
                         [SubSeq(ctor_stack, 1, n - 1) EXCEPT ![n - 1].next = @ + 1]
                   /\ UNCHANGED ctor_state
    /\ UNCHANGED <<listVars, coordVars, rpcVars, protoVars, sessVars,
                   regVars, bcVars, chkVars, fanVars, taskVars, nameVars>>

InitConstruct ==
    ListsIdle /\ CoordInit /\ RpcInit /\ ProtoInit /\ SessInit /\ PartInit

NextConstruct == Construct \/ CallConstructor \/ ReturnFromConstructor

SpecConstruct == InitConstruct /\ [][NextConstruct]_vars

----------------------------------------------------------------------------
(* The task executor's test tool *)

TaskUrls == {"https://a.example", "a.example", "https://"}

TaskTestTypes ==
    {<<>>, <<<<"all">>>>, <<<<"color_contrast">>>>, <<<<"keyboard_focus">>>>,
     <<<<"screen_reader">>>>}

TaskExecuteAccessibilityTest ==
    /\ \E url \in TaskUrls, test_types \in TaskTestTypes, head \in HeadOutcomes :
          \E outcome \in [{"color_contrast", "keyboard_focus"} -> TaskCheckerOutcomes] :
             task_call' = [op |-> "execute_accessibility_test", url |-> url,
                           test_types |-> test_types, head |-> head,
                           outcome |-> outcome,
                           result |-> task_execute_accessibility_test(
                                          url, test_types, head, outcome)]
    /\ UNCHANGED <<listVars, coordVars, rpcVars, protoVars, sessVars,
                   regVars, bcVars, chkVars, fanVars, ctorVars, nameVars>>

InitTaskTool ==
    ListsIdle /\ CoordInit /\ RpcInit /\ ProtoInit /\ SessInit /\ PartInit

NextTaskTool == TaskExecuteAccessibilityTest

SpecTaskTool == InitTaskTool /\ [][NextTaskTool]_vars

----------------------------------------------------------------------------
(* A client that calls the agents the server lists *)

MethodV2Analyze == A2AMethod("v2.analyze_accessibility", "Perform WCAG 2.2 analysis")

\* cards whose names and method names are plain or carry a version part
NamingCards ==
    {AccessibilityAgentCard(n, "Accessibility testing", "1.0.0", <<"A", "AA">>, m) :
        n \in {"checker", "checker.v2"},
        m \in {<<>>, <<MethodAnalyze>>, <<MethodV2Analyze>>}}

RegisterNamedAgent ==
    \E agent \in AgentObjects, card \in NamingCards :
        LET r == register_agent(Registry(agents, agent_cards, method_handlers, FALSE),
                                agent, card)
        IN  /\ agents' = r.agents
            /\ agent_cards' = r.agent_cards
            /\ method_handlers' = r.method_handlers
            /\ handler_of' = IF r.raised THEN handler_of
                             ELSE bind_handlers(handler_of, agent, card, 1)
            /\ UNCHANGED <<last_register, active_connections, ws_running, exchange,
                           prev_code, listVars, coordVars, protoVars, sessVars,
                           bcVars, chkVars, fanVars, ctorVars, taskVars, client_call>>

\* send_request on a handle named after an entry of the listing, for a method the
\* entry lists, and handle_jsonrpc answering it
ClientSendRequest ==
    \E info \in list_agents(agent_cards) :
        \E i \in DOMAIN info.methods :
            LET method == request_method(info.name, info.methods[i])
                body == [kind |-> "object", jsonrpc |-> "\"2.0\"", method |-> method,
                         id |-> "\"abc\""]
            IN  \E behaviour \in BehavioursFor(body, method_handlers) :
                    LET r == handle_jsonrpc(body, behaviour, method_handlers)
                    IN  /\ client_call' =
                              [op |-> "send_request", name |-> info.name,
                               method_name |-> info.methods[i],
                               registered |-> agents[info.name],
                               code |-> CodeOf(r),
                               raised |-> r.reply.kind = "error",
                               dispatched |-> IF r.handler_ran THEN <<handler_of[method]>>
                                              ELSE <<>>]
                        /\ UNCHANGED <<regVars, rpcVars, handler_of, listVars, coordVars,
                                       protoVars, sessVars, bcVars, chkVars, fanVars,
                                       ctorVars, taskVars>>

InitNaming == InitRegister

NextNaming == RegisterNamedAgent \/ ClientSendRequest

SpecNaming == InitNaming /\ [][NextNaming]_vars

----------------------------------------------------------------------------
(* The coordinator looks for the agents of one server *)

\* cards a server can hold: the module's, one with the default capabilities, and
\* two that name the capabilities the coordinator asks for
OfferedCards ==
    ModuleCards
        \cup { TesterCard("custom_checker", <<>>),
               TesterCard("wcag_checker", <<BothCapabilities>>),
               TesterCard("full_checker",
                          <<BothCapabilities \o DefaultTestingCapabilities>>) }

\* the cards registered on the server, in the order of registration
ServerCards ==
    {l \in ListsUpTo(OfferedCards, 2) : Len(l) >= 1 /\ (Len(l) = 2 => l[1].name # l[2].name)}

DiscoverRemoteAgents ==
    /\ last_op = NoOp
    /\ \E registered \in ServerCards, endpoint \in EndpointSet,
          other \in RegistryAnswers \cup FailedAnswers :
          LET listing == [kind |-> "ok",
                          agents |-> [i \in DOMAIN registered |->
                                         agent_info_of(registered[i])]]
              answers == [e \in EndpointSet |-> IF e = endpoint THEN listing ELSE other]
              r == discover_remote_agents(known_agents, answers, now)
          IN  /\ known_agents' = r.known_agents
              /\ remote_agents' = [i \in DOMAIN r.discovered_agents |->
                                      r.discovered_agents[i].name]
              /\ last_op' = [op |-> "discover_remote_agents", registered |-> registered,
                             endpoint |-> endpoint, other |-> other,
                             returned |-> r.discovered_agents]
    /\ UNCHANGED <<now, sweep_input, pc, runs, url_status, remote_calls, all_issues,
                   next_sub, outcomes, test_results, issues_found,
                   listVars, rpcVars, sessVars, partVars>>

InitDefaultCards == ListsIdle /\ CoordInit /\ RpcInit /\ ProtoInit /\ SessInit /\ PartInit

NextDefaultCards == DiscoverRemoteAgents

SpecDefaultCards == InitDefaultCards /\ [][NextDefaultCards]_vars

----------------------------------------------------------------------------
(* Cards written to JSON and read back *)

StringSchema == PyDict([type |-> PyStr("string")])

JsonMethods ==
    { MethodObject(PyStr("analyze_accessibility"), PyStr("Perform WCAG 2.2 analysis"),
                   PyDict([url |-> StringSchema,
                           required |-> PyList(<<PyStr("url")>>)]),
                   PyDict([type |-> PyStr("object"),
                           properties |-> PyDict([issues |-> PyDict([type |-> PyStr("array")])])])),
      MethodObject(PyStr("get_capabilities"), PyStr("Get agent capabilities"),
                   PyDict(<<>>), PyDict([type |-> PyStr("object")])),
      MethodObject(PyStr("validate_aria"), PyStr("Validate ARIA attributes"),
                   PyDict([selector |-> StringSchema]), PyDict(<<>>)) }

JsonTimes ==
    { Datetime("2025-01-15", "10:30:00", 0), Datetime("2025-01-15", "10:30:00", 123456) }

\* valid cards: one or two methods, timestamps with and without a fraction
JsonCards ==
    { CardObject("color_contrast_agent", PyList(levels), PyList(caps), PyList(methods),
                 created_at, updated_at) :
        levels \in {<<PyStr("A"), PyStr("AA"), PyStr("AAA")>>, <<PyStr("AA")>>},
        caps \in {<<>>, <<PyStr("color_contrast_analysis")>>},
        methods \in {l \in ListsUpTo(JsonMethods, 2) : Len(l) >= 1},
        created_at \in JsonTimes, updated_at \in JsonTimes }

InitCardJson ==
    /\ issues \in {<<card>> : card \in JsonCards}
    /\ output = <<>>
    /\ op = "none"
    /\ CoordInit /\ RpcInit /\ ProtoInit /\ SessInit /\ PartInit

\* from_json(card.to_json())
RoundTrip ==
    /\ op = "none"
    /\ output' = <<from_json(to_json(issues[1]))>>
    /\ op' = "round_trip"
    /\ UNCHANGED <<issues, coordVars, rpcVars, protoVars, sessVars, partVars>>

\* A2AServer.get_agent_card: json.loads(card.to_json()) is the body it answers with
GetAgentCard ==
    /\ op = "none"
    /\ output' = <<json_loads(to_json(issues[1]))>>
    /\ op' = "get_agent_card"
    /\ UNCHANGED <<issues, coordVars, rpcVars, protoVars, sessVars, partVars>>

NextCardJson == RoundTrip \/ GetAgentCard

SpecCardJson == InitCardJson /\ [][NextCardJson]_vars

----------------------------------------------------------------------------
(* The vocabulary of the claims *)

\* the ordered enum: critical > high > medium > low > info
SeverityOrder == <<"info", "low", "medium", "high", "critical">>

Ordinal(severity) == CHOOSE i \in 1..Len(SeverityOrder) : SeverityOrder[i] = severity

KeysOf(list) == {issue_key(list[i]) : i \in 1..Len(list)}

MaxOrdinalOf(list, key) ==
    SetMax({Ordinal(list[i].severity) :
              i \in {j \in 1..Len(list) : issue_key(list[j]) = key}})

\* the first input position holding the key at the key's highest severity
FirstBest(list, key) ==
    SetMin({i \in 1..Len(list) :
              /\ issue_key(list[i]) = key
              /\ Ordinal(list[i].severity) = MaxOrdinalOf(list, key)})

\* the level a citation names after the word "Level", as in
\* "WCAG 2.2 Level AA" or "1.4.3 Contrast (Minimum) (Level AA)"
LevelWords == [A |-> {"A", "A)"}, AA |-> {"AA", "AA)"}, AAA |-> {"AAA", "AAA)"}]

Cites(guideline, level) ==
    /\ guideline # <<>>
    /\ \E i \in 1..(Len(guideline[1]) - 1) :
          /\ guideline[1][i] \in {"Level", "(Level"}
          /\ guideline[1][i + 1] \in LevelWords[level]

\* 3 for a citation of Level A, 2 for Level AA, 1 for AAA or no level
CitedLevelRank(guideline) ==
    IF Cites(guideline, "A") THEN 3 ELSE IF Cites(guideline, "AA") THEN 2 ELSE 1

\* the issues of the run's invocations that did not fail, in invocation order
RemoteContribution ==
    Concat([k \in DOMAIN remote_calls |->
               IF remote_calls[k].failed THEN <<>> ELSE remote_calls[k].issues])

LocalContribution ==
    Concat([k \in DOMAIN outcomes |->
               IF outcomes[k].raised THEN <<>> ELSE outcomes[k].issues])

FailedLocal == {k \in DOMAIN outcomes : outcomes[k].raised}

\* the pairs (remote handle, test type) invoked in the run
InvokedPairs == {<<remote_calls[k].agent, remote_calls[k].test_type>> : k \in DOMAIN remote_calls}

----------------------------------------------------------------------------
(* C1 *)

\* C1: _deduplicate_issues returns exactly one issue per dedup key of its input,
\* and it is the input's first issue among those of the key's highest severity rank.
C1_DedupKeepsFirstHighest ==
    op = "dedup" =>
        /\ Len(output) = Cardinality(KeysOf(issues))
        /\ \A key \in KeysOf(issues) :
              \E i \in 1..Len(output) :
                  /\ output[i] = issues[FirstBest(issues, key)]
                  /\ \A j \in 1..Len(output) : issue_key(output[j]) = key => j = i

\* a later issue of a higher rank replaced the retained one, and a still later
\* issue of the same key tied with it and differs from it
C1_Witness ==
    /\ op = "dedup"
    /\ \E i, j, k \in 1..Len(issues) :
          /\ i < j /\ j < k
          /\ issue_key(issues[i]) = issue_key(issues[j])
          /\ issue_key(issues[j]) = issue_key(issues[k])
          /\ Ordinal(issues[i].severity) < Ordinal(issues[j].severity)
          /\ issues[j].severity = issues[k].severity
          /\ issues[j] # issues[k]
    /\ Len(output) = 1

----------------------------------------------------------------------------
(* C2 *)

\* C2: in the list _prioritize_issues returns the severity rank never increases
\* from front to back, and among issues of equal severity one citing Level A comes
\* before one citing Level AA, which comes before one citing AAA or no level.
C2_PrioritizedBySeverityThenLevel ==
    op = "prioritize" =>
        \A i, j \in 1..Len(output) :
            i < j =>
                /\ Ordinal(output[i].severity) >= Ordinal(output[j].severity)
                /\ output[i].severity = output[j].severity =>
                      CitedLevelRank(output[i].wcag_guideline)
                          >= CitedLevelRank(output[j].wcag_guideline)

----------------------------------------------------------------------------
(* C3 *)

\* C3: when an analyze run has returned, every remote pair and every local
\* checker has been invoked whatever the others did, and the returned list is the
\* merge of the outputs of exactly the invocations that did not fail.
C3_FailuresAreIsolated ==
    Returned =>
        /\ Len(outcomes) = Len(sub_agents)
        /\ Len(remote_calls) = Len(remote_agents) * Len(TestTypes)
        /\ all_issues = RemoteContribution \o LocalContribution
        /\ issues_found = _prioritize_issues(_deduplicate_issues(all_issues))

\* the first local checker raised, the second returned an issue, which is in
\* the returned list, and the remote invocations of the run failed
C3_Witness ==
    /\ Returned
    /\ outcomes[1].raised
    /\ ~outcomes[2].raised /\ outcomes[2].issues # <<>>
    /\ issues_found = outcomes[2].issues
    /\ remote_calls # <<>>
    /\ \A k \in DOMAIN remote_calls : remote_calls[k].failed

----------------------------------------------------------------------------
(* C4 *)

UrlValidationIssue(list) ==
    /\ Len(list) = 1
    /\ list[1].severity = "critical"
    /\ list[1].issue_type = "URL_VALIDATION"

\* C4: a run whose url fails the reachability probe returns exactly one issue,
\* CRITICAL of type URL_VALIDATION, and invokes no checker.
C4_UnreachableShortCircuits ==
    (Returned /\ ~validate_url(url_status)) =>
        /\ UrlValidationIssue(issues_found)
        /\ outcomes = <<>>
        /\ remote_calls = <<>>

----------------------------------------------------------------------------
(* C5 *)

\* C5: the list analyze returns holds at most one issue per dedup key, and for
\* every key a non-failing checker reported it holds an issue of that key with
\* the highest severity reported for the key.
C5_MergedOnePerKeyHighest ==
    Returned =>
        /\ \A i, j \in 1..Len(issues_found) :
              issue_key(issues_found[i]) = issue_key(issues_found[j]) => i = j
        /\ \A key \in KeysOf(RemoteContribution \o LocalContribution) :
              \E i \in 1..Len(issues_found) :
                  /\ issue_key(issues_found[i]) = key
                  /\ Ordinal(issues_found[i].severity)
                        = MaxOrdinalOf(RemoteContribution \o LocalContribution, key)

\* two checkers reported the same key, at HIGH and at CRITICAL
C5_Witness ==
    /\ Returned
    /\ ~outcomes[1].raised /\ ~outcomes[2].raised
    /\ Len(outcomes[1].issues) = 1 /\ Len(outcomes[2].issues) = 1
    /\ issue_key(outcomes[1].issues[1]) = issue_key(outcomes[2].issues[1])
    /\ outcomes[1].issues[1].severity = "high"
    /\ outcomes[2].issues[1].severity = "critical"
    /\ Len(issues_found) = 1
    /\ issues_found[1].severity = "critical"

----------------------------------------------------------------------------
(* C6 *)

\* The coordinator keeps no count of failed checkers. The audit data it keeps
\* is test_results, the raw output per checker; read most generously, the
\* checkers without an entry in it are the ones recorded as failed.
RecordedFailureCount == Len(sub_agents) - Cardinality(DOMAIN test_results)

\* C6: after a run in which k local checkers raised, the result holds the issues
\* of the other checkers only and the audit trail records a failure count of k.
C6_FailureCountRecorded ==
    Returned =>
        /\ issues_found = Merge(RemoteContribution \o LocalContribution)
        /\ RecordedFailureCount = Cardinality(FailedLocal)

----------------------------------------------------------------------------
(* C7 *)

Handled == exchange.transport \in {"http", "ws"}

\* the id the request supplied, null when it supplied none
RequestId(body) ==
    IF body.kind = "object" /\ body.id # Absent THEN body.id ELSE PyNone

\* jsonrpc is "2.0" and method is a non-empty string
ValidEnvelope(body) ==
    /\ body.kind = "object"
    /\ body.jsonrpc = "\"2.0\""
    /\ body.method \in JsonStrings \ {"\"\""}

\* C7: a request with a valid envelope whose method is not registered is answered,
\* over HTTP and over WebSocket, with error -32601 and the request's id, and no
\* handler is executed. (No answer reaches a WebSocket whose send fails.)
C7_UnknownMethodIsNotFound ==
    (Handled /\ ValidEnvelope(exchange.body) /\ exchange.body.method \notin method_handlers
        /\ exchange.send_ok) =>
        /\ exchange.reply.kind = "error"
        /\ exchange.reply.code = -32601
        /\ exchange.reply.id = RequestId(exchange.body)
        /\ ~exchange.handler_ran

C7_Witness ==
    /\ exchange.transport = "ws"
    /\ ValidEnvelope(exchange.body)
    /\ exchange.body.method \notin method_handlers
    /\ exchange.body.id = "7"
    /\ exchange.reply.kind = "error"
    /\ exchange.reply.code = -32601
    /\ exchange.reply.id = "7"
    /\ prev_code = -32601

----------------------------------------------------------------------------
(* C8 *)

\* C8: an HTTP request for a registered method whose handler raises is answered
\* with error -32603, a message carrying the exception text, and the request's id;
\* the server can take the next request.
C8_HandlerFailureIsInternalError ==
    (exchange.transport = "http" /\ ValidEnvelope(exchange.body)
        /\ exchange.body.method \in method_handlers
        /\ exchange.behaviour.does = "raises") =>
        /\ exchange.handler_ran
        /\ exchange.reply.kind = "error"
        /\ exchange.reply.code = -32603
        /\ exchange.reply.message = <<"Internal error: ", exchange.behaviour.text>>
        /\ exchange.reply.id = RequestId(exchange.body)
        /\ ENABLED HttpRequest

\* a handler failure answered right after another request that ended in -32603
C8_Witness ==
    /\ exchange.transport = "http"
    /\ exchange.handler_ran
    /\ exchange.behaviour.does = "raises"
    /\ exchange.reply.kind = "error"
    /\ exchange.reply.code = -32603
    /\ exchange.reply.id = "7"
    /\ prev_code = -32603

----------------------------------------------------------------------------
(* C9 *)

\* well-formed JSON that is no valid envelope
InvalidEnvelope(body) ==
    \/ body.kind \notin {"malformed", "object"}
    \/ /\ body.kind = "object"
       /\ \/ body.jsonrpc # "\"2.0\""
          \/ body.method \in {Absent, "\"\""}

\* C9: over HTTP a body that is not JSON gets -32700 with id null, a JSON body
\* that is no valid envelope gets -32600, and neither runs a handler.
C9_ParseAndEnvelopeErrors ==
    exchange.transport = "http" =>
        /\ exchange.body.kind = "malformed" =>
              /\ exchange.reply.kind = "error"
              /\ exchange.reply.code = -32700
              /\ exchange.reply.id = PyNone
              /\ ~exchange.handler_ran
        /\ InvalidEnvelope(exchange.body) =>
              /\ exchange.reply.kind = "error"
              /\ exchange.reply.code = -32600
              /\ ~exchange.handler_ran

----------------------------------------------------------------------------
(* C10 *)

\* C10: every response the server produces for a request carries the id the
\* request supplied, and null when it supplied none.
C10_ResponseCarriesRequestId ==
    (Handled /\ exchange.reply.kind # "none") =>
        exchange.reply.id = RequestId(exchange.body)

----------------------------------------------------------------------------
(* C11 *)

\* C11: a WebSocket text message gets the outcome the HTTP route gives the same
\* envelope: a raising handler is answered with -32603 and the message's id, an
\* envelope without jsonrpc "2.0" or without a method with -32600, and after
\* either the connection is still open and still in the active connections.
C11_WebSocketAnswersLikeHttp ==
    (exchange.transport = "ws" /\ exchange.send_ok /\ exchange.body.kind = "object") =>
        /\ (ValidEnvelope(exchange.body) /\ exchange.body.method \in method_handlers
                /\ exchange.behaviour.does = "raises") =>
              /\ exchange.reply.kind = "error"
              /\ exchange.reply.code = -32603
              /\ exchange.reply.id = RequestId(exchange.body)
              /\ ~exchange.closed
              /\ exchange.conn \in ws_running
              /\ \E k \in DOMAIN active_connections : active_connections[k] = exchange.conn
        /\ (exchange.body.jsonrpc # "\"2.0\"" \/ exchange.body.method \in {Absent, "\"\""}) =>
              /\ exchange.reply.kind = "error"
              /\ exchange.reply.code = -32600
              /\ ~exchange.closed

----------------------------------------------------------------------------
(* C12 *)

Swept == last_op.op = "discover_agents"

\* the handles of a list that point at an endpoint
FromEndpoint(list, endpoint) == SelectSeq(list, LAMBDA h : h.endpoint = endpoint)

\* what a sweep over the one endpoint returns
SweptAlone(endpoint) ==
    discover_agents(<<>>, <<endpoint>>, sweep_input.answers, AgentType,
                    sweep_input.capabilities, now).discovered_agents

----------------------------------------------------------------------------
(* C13 *)

Elements(list) == {list[k] : k \in DOMAIN list}

\* the entry declares the requested type and every capability of the filter
Matches(agent_info, capabilities) ==
    /\ agent_info.agent_type = <<AgentType>>
    /\ capabilities # <<>> =>
          Elements(capabilities[1]) \subseteq Elements(GetCapabilities(agent_info))

\* the entries with a name that the endpoints which answered list
ListedEntries ==
    UNION { {<<e, sweep_input.answers[e].agents[k]>> :
                k \in DOMAIN sweep_input.answers[e].agents} :
            e \in {x \in EndpointSet : sweep_input.answers[x].kind = "ok"} }

NamedEntries == {p \in ListedEntries : p[2].name # <<>>}

\* C13: a sweep creates a handle for a listed agent exactly when the agent declares
\* the requested type and every capability of the filter, and the registry then
\* maps the name of every matching agent to one handle made from an entry of
\* that name.
C13_HandleIffMatching ==
    Swept =>
        /\ \A p \in NamedEntries :
              Matches(p[2], sweep_input.capabilities) <=>
                  \E k \in DOMAIN last_op.returned :
                      /\ last_op.returned[k].endpoint = p[1]
                      /\ last_op.returned[k].capabilities = p[2]
        /\ DOMAIN known_agents =
              {p[2].name[1] : p \in {q \in NamedEntries :
                                        Matches(q[2], sweep_input.capabilities)}}
        /\ \A n \in DOMAIN known_agents :
              /\ known_agents[n].name = n
              /\ In(known_agents[n], last_op.returned)

----------------------------------------------------------------------------
(* C14 *)

\* C14: a send_request answered with status 200 and a result returns the result
\* payload and sets the last_seen of the handle it was sent to to the current time.
C14_SendRequestStampsLastSeen ==
    (last_op.op = "send_request" /\ last_op.reply.kind = "ok") =>
        /\ ~last_op.raised
        /\ last_op.returned = last_op.reply.issues
        /\ known_agents[last_op.target].last_seen = <<last_op.at>>

----------------------------------------------------------------------------
(* C15 *)

\* C15: send_request raises, and returns no payload, when the status is not 200,
\* when the envelope has an error member and when the request times out; the
\* last_seen of the handle stays what it was.
C15_SendRequestRaisesOnFailure ==
    (last_op.op = "send_request"
        /\ last_op.reply.kind \in {"http_error", "rpc_error", "timeout"}) =>
        /\ last_op.raised
        /\ last_op.returned = <<>>
        /\ known_agents[last_op.target].last_seen = last_op.seen_before

C15_Witness ==
    /\ last_op.op = "send_request"
    /\ last_op.reply.kind = "rpc_error"
    /\ last_op.raised
    /\ last_op.at = 2
    /\ known_agents[last_op.target].last_seen = <<0>>

----------------------------------------------------------------------------
(* C16 *)

\* C16: ping_agent never raises; it returns true and sets last_seen to the current
\* time exactly when the health endpoint answers 200, and returns false with
\* last_seen as it was on any other status, a timeout or a connection error.
C16_PingNeverRaises ==
    last_op.op = "ping_agent" =>
        /\ ~last_op.raised
        /\ last_op.returned <=> last_op.outcome = "200"
        /\ known_agents[last_op.target].last_seen =
              IF last_op.outcome = "200" THEN <<last_op.at>> ELSE last_op.seen_before

\* a failed ping of a handle last seen earlier, after a ping that stamped another
C16_Witness ==
    /\ last_op.op = "ping_agent"
    /\ last_op.outcome = "timeout"
    /\ ~last_op.returned
    /\ last_op.at = 3
    /\ known_agents[last_op.target].last_seen = <<1>>
    /\ \E n \in DOMAIN known_agents : known_agents[n].last_seen = <<2>>

----------------------------------------------------------------------------
(* C17 *)

\* last_seen unset, or at least five minutes before the current time
Stale(handle) ==
    \/ handle.last_seen = <<>>
    \/ now - handle.last_seen[1] >= FreshMinutes

\* C17: a handle whose last_seen is unset or at least 5 minutes old is not among
\* the available agents but is in the registry, and no step takes a name out of
\* the registry.
C17_StaleHandlesAreKept ==
    /\ [](\A n \in DOMAIN known_agents :
            Stale(known_agents[n]) =>
                /\ known_agents[n] \notin get_available_agents(known_agents, now)
                /\ n \in DOMAIN get_agent_registry(known_agents)
                /\ get_agent_registry(known_agents)[n] = known_agents[n])
    /\ [][DOMAIN known_agents \subseteq DOMAIN known_agents']_vars

\* one handle exactly five minutes old and left out, another one fresh and returned
C17_Witness ==
    /\ DOMAIN known_agents = {"a", "b"}
    /\ now - known_agents["a"].last_seen[1] = FreshMinutes
    /\ known_agents["a"] \notin get_available_agents(known_agents, now)
    /\ known_agents["b"] \in get_available_agents(known_agents, now)
    /\ last_op.op = "ping_agent"

----------------------------------------------------------------------------
(* C18 *)

\* the calls that take the id of an existing session
SessionCalls ==
    {"process_user_input", "execute_accessibility_test",
     "generate_comprehensive_report", "cleanup_session"}

\* the call told its caller that there is no such session
SignalledNotFound(call) ==
    \/ call.ended = "ValueError: not found"
    \/ call.op = "cleanup_session" /\ call.ended = "returned" /\ call.value.text = "False"

\* C18: a call that names a session id which is not in the store, never made or
\* cleaned up, signals not-found and leaves the store as it was; it creates no
\* session.
C18_UnknownSessionIsNotFound ==
    [][(/\ last_call'.op \in SessionCalls
        /\ last_call'.session_id # <<>>
        /\ last_call'.session_id[1] \notin DOMAIN active_sessions) =>
            /\ SignalledNotFound(last_call')
            /\ active_sessions' = active_sessions]_vars

----------------------------------------------------------------------------
(* C19 *)

\* test_completed or test_error is set
Final(state) == state.test_completed = <<TRUE>> \/ state.test_error # <<>>

\* C19: the state of a session that is completed or errored is not changed by any
\* later call; only cleanup_session takes the session away.
C19_FinalSessionsAreImmutable ==
    [][\A id \in DOMAIN active_sessions :
          Final(active_sessions[id]) =>
              IF id \in DOMAIN active_sessions'
              THEN active_sessions'[id] = active_sessions[id]
              ELSE last_call'.op = "cleanup_session"]_vars

----------------------------------------------------------------------------
(* C20 *)

\* C20: cleanup_session of a session in the store returns true and removes that
\* session and nothing else; of any other id it returns false and changes
\* nothing, so the second cleanup of an id returns false.
C20_CleanupRemovesExactlyOne ==
    [][last_call'.op = "cleanup_session" =>
          LET id == last_call'.session_id[1]
          IN  /\ last_call'.ended = "returned"
              /\ issued' = issued
              /\ IF id \in DOMAIN active_sessions
                 THEN /\ last_call'.value.text = "True"
                      /\ DOMAIN active_sessions' = DOMAIN active_sessions \ {id}
                      /\ \A k \in DOMAIN active_sessions' :
                            active_sessions'[k] = active_sessions[k]
                 ELSE /\ last_call'.value.text = "False"
                      /\ active_sessions' = active_sessions]_vars

\* a cleanup of an id that was made and cleaned up before, next to a session with
\* a completed test
C20_Witness ==
    /\ last_call.op = "cleanup_session"
    /\ last_call.value.text = "False"
    /\ last_call.session_id[1] \in 1..issued
    /\ last_call.session_id[1] \notin DOMAIN active_sessions
    /\ \E k \in DOMAIN active_sessions : active_sessions[k].test_completed = <<TRUE>>

----------------------------------------------------------------------------
(* C21 *)

\* the registries a register_agent call may change
Registries == <<agents, agent_cards, method_handlers>>

\* C21: every card in the server's registry has a non-empty name, at least one
\* method and compliance levels among A, AA and AAA; a register_agent call with a
\* card that validate finds errors in raises and leaves agents, agent_cards and
\* method_handlers as they were.
C21_RegisteredCardsAreValid ==
    /\ [](\A name \in DOMAIN agent_cards :
             LET card == agent_cards[name]
             IN  /\ card.name # ""
                 /\ Len(card.methods) >= 1
                 /\ \A i \in DOMAIN card.compliance_levels :
                       card.compliance_levels[i] \in {"A", "AA", "AAA"})
    /\ [][last_register'.op = "register_agent" =>
             IF validate(last_register'.card) # <<>>
             THEN last_register'.raised /\ Registries' = Registries
             ELSE ~last_register'.raised]_vars

\* a rejected card offered to a server that holds a registered card under the
\* same name
C21_Witness ==
    /\ last_register.op = "register_agent"
    /\ last_register.raised
    /\ last_register.card.name \in DOMAIN agent_cards
    /\ last_register.card.methods = <<>>

----------------------------------------------------------------------------
(* C23 *)

\* C23: the server's score of the empty list is 100.0 and its score of every list
\* lies between 0 and 100; the summary score of compile_test_results is 100 for
\* the empty list and lies between 0 and 100 for every list.
C23_ScoresWithinRange ==
    op = "score" =>
        /\ output[1].server >= 0 /\ output[1].server <= 10000
        /\ output[1].summary >= 0 /\ output[1].summary <= 100
        /\ issues = <<>> => output[1].server = 10000 /\ output[1].summary = 100

\* a list whose penalties exceed 100 points: the summary score is held at 0
C23_Witness ==
    /\ op = "score"
    /\ count_of(issues, "critical") * 20 + count_of(issues, "high") * 10
           + Len(issues) * 2 > 100
    /\ output[1].summary = 0
    /\ output[1].server = 4000

----------------------------------------------------------------------------
(* C24 *)

\* the list with its i-th issue given the severity s
WithSeverity(list, i, s) == [list EXCEPT ![i] = [@ EXCEPT !.severity = s]]

\* C24: the server's score does not rise when an issue is added to the list or
\* when the severity of one issue is raised.
C24_ScoreNeverRises ==
    op = "score" =>
        /\ \A extra \in ScoreIssues :
              _calculate_compliance_score(Append(issues, extra)) <= output[1].server
        /\ \A i \in DOMAIN issues, s \in TestSeverity :
              _severity_rank(s) > _severity_rank(issues[i].severity) =>
                  _calculate_compliance_score(WithSeverity(issues, i, s))
                      <= output[1].server

----------------------------------------------------------------------------
(* C25 *)

\* C25: an analyze call whose validate_url fails does not raise and returns
\* exactly one issue, CRITICAL and of type URL_VALIDATION, of the checker, without
\* driving the browser, whatever issues_found held before the call.
C25_UnreachableTargetIsOneIssue ==
    (checker_call.op = "analyze" /\ checker_call.status # "200") =>
        /\ ~checker_call.raised
        /\ ~checker_call.browser
        /\ Len(checker_call.returned) = 1
        /\ checker_call.returned[1].severity = "critical"
        /\ checker_call.returned[1].issue_type = "URL_VALIDATION"
        /\ checker_call.returned[1].agent_name = checker_call.checker
        /\ checker_issues = checker_call.returned

\* an unreachable target analyzed by a checker that held earlier findings
C25_Witness ==
    /\ checker_call.op = "analyze"
    /\ checker_call.status = "404"
    /\ checker_call.had >= 2
    /\ Len(checker_call.returned) = 1

----------------------------------------------------------------------------
(* C26 *)

\* the positions of a list whose issue has the severity
PositionsOf(list, severity) == {i \in DOMAIN list : list[i].severity = severity}

\* list is sub's elements at increasing positions: position k of sub is the k-th
\* position of list with the severity
IsSelection(sub, list, severity) ==
    /\ Len(sub) = Cardinality(PositionsOf(list, severity))
    /\ \A k \in DOMAIN sub :
          \E i \in PositionsOf(list, severity) :
              /\ Cardinality({j \in PositionsOf(list, severity) : j <= i}) = k
              /\ sub[k] = list[i]

\* C26: issues_found holds the issues added since the last clear_issues, in the
\* order they were added; get_issues_by_severity(s) returns those of them whose
\* severity is s, in that order, and the lists of all severities together are
\* issues_found.
C26_BySeverityIsASelection ==
    /\ [](checker_call.op = "get_issues_by_severity" =>
             /\ IsSelection(checker_call.returned, checker_issues, checker_call.severity)
             /\ \A i \in DOMAIN checker_issues :
                   checker_issues[i].severity = checker_call.severity =>
                       \E k \in DOMAIN checker_call.returned :
                           checker_call.returned[k] = checker_issues[i])
    /\ [](DOMAIN checker_issues = UNION {PositionsOf(checker_issues, s) : s \in TestSeverity})
    /\ [][/\ checker_call'.op = "add_issue" =>
                 checker_issues' = Append(checker_issues, checker_call'.issue)
          /\ checker_call'.op = "clear_issues" => checker_issues' = <<>>
          /\ checker_call'.op = "get_issues_by_severity" =>
                 checker_issues' = checker_issues]_vars

\* two issues of one severity returned in the order they were added, an issue of
\* another severity having been added between them
C26_Witness ==
    /\ checker_call.op = "get_issues_by_severity"
    /\ Len(checker_issues) = 3
    /\ checker_issues[1] # checker_issues[3]
    /\ checker_issues[2].severity # checker_call.severity
    /\ checker_call.returned = <<checker_issues[1], checker_issues[3]>>

----------------------------------------------------------------------------
(* C22 *)

\* C22: when a broadcast returns, every connection that was in the active set
\* when it was called and stayed open with its handler running has been sent the
\* message; the connections whose send raised or that were closed are not in the
\* list it stores, and the connections whose send returned are.
C22_BroadcastReachesEveryOpenConnection ==
    bc.pc = "done" =>
        /\ \A ws \in bc.at_start :
              (ws \in bc.running /\ ws \notin bc.shut) => ws \in bc.attempted
        /\ Members(bc.kept) = bc.attempted \ bc.failed

----------------------------------------------------------------------------
(* C29 *)

\* C29: a connection whose handler is running, that is open and that has not
\* failed a broadcast's send is in the active list; a connection whose handler has
\* exited is not in it.
C29_ActiveSetIsExact ==
    /\ \A ws \in ws_running \ (closed \cup FailedBy(bc)) :
          ws \in Members(active_connections)
    /\ \A ws \in Members(active_connections) : ws \in ws_running

----------------------------------------------------------------------------
(* C27 *)

\* C27: in every analyze call there is a moment at which the whole fan-out set,
\* the remote invocations and the local ones, is in flight together.
C27_FanOutIsInFlightTogether ==
    <>(in_flight = RemoteInvocations(remote_agents) \cup LocalInvocations)

----------------------------------------------------------------------------
(* C28 *)

\* the issues of the call's invocations, by task order then sub-agent order,
\* whatever the order they ended in
OutputsInCallOrder ==
    LET entry(inv) == CHOOSE e \in Members(completion) : e.inv = inv
        remote == [k \in DOMAIN RemoteTasks(remote_agents) |->
                      entry(<<"remote", k>>).result.issues]
        local == [i \in DOMAIN sub_agents |->
                     IF entry(<<"local", i>>).outcome.raised THEN <<>>
                     ELSE entry(<<"local", i>>).outcome.issues]
    IN  Concat(remote) \o Concat(local)

\* C28: the list analyze returns is determined by the handles and by what each
\* invocation returned, not by the order in which the invocations ended: the
\* results of the remote tasks are taken in task order, and the list is the merge
\* of the outputs in call order.
C28_ResultIgnoresCompletionOrder ==
    pc = "returned" =>
        /\ \A k \in DOMAIN remote_calls :
              /\ remote_calls[k].agent = RemoteTasks(remote_agents)[k].agent
              /\ remote_calls[k].test_type = RemoteTasks(remote_agents)[k].test_type
        /\ issues_found = _prioritize_issues(_deduplicate_issues(OutputsInCallOrder))

\* a call whose remote tasks ended last task first, and whose two sub-agents
\* reported the same issue at different severities
C28_Witness ==
    /\ pc = "returned"
    /\ Len(completion) = 6
    /\ completion[1].inv = <<"remote", 4>>
    /\ completion[4].inv = <<"remote", 1>>
    /\ Len(issues_found) = 1
    /\ \E i, j \in DOMAIN outcomes :
          /\ outcomes[i].issues # <<>> /\ outcomes[j].issues # <<>>
          /\ outcomes[i].issues[1].severity # outcomes[j].issues[1].severity

----------------------------------------------------------------------------
(* C30 *)

\* the dedup keys of a list
KeysIn(list) == {issue_key(list[i]) : i \in DOMAIN list}

\* C30: when analyze has returned, the issues of every remote answer that was a
\* result with a list of issues have their dedup keys in the returned list.
C30_RemoteIssuesAreMerged ==
    pc = "returned" =>
        \A j \in DOMAIN completion :
            (completion[j].inv[1] = "remote" /\ completion[j].reply.kind = "ok") =>
                KeysIn(completion[j].reply.issues) \subseteq KeysIn(issues_found)

----------------------------------------------------------------------------
(* C31 *)

\* the invocations of the call that have ended, remote and local
EndedRemote == {j \in DOMAIN completion : completion[j].inv[1] = "remote"}

EndedLocal == {j \in DOMAIN completion : completion[j].inv[1] = "local"}

\* C31: when analyze has returned, it has made one remote invocation for every
\* pair of a discovered handle and a test type and one invocation of every
\* sub-agent, none twice and no other.
C31_FanOutSetIsExact ==
    pc = "returned" =>
        /\ Cardinality(EndedRemote) = Len(remote_agents) * Len(TestTypes)
        /\ \A i \in DOMAIN remote_agents, t \in DOMAIN TestTypes :
              Cardinality({j \in EndedRemote :
                              /\ completion[j].result.agent = remote_agents[i]
                              /\ completion[j].result.test_type = TestTypes[t]})
                  = Cardinality({h \in DOMAIN remote_agents :
                                    remote_agents[h] = remote_agents[i]})
        /\ Cardinality(EndedLocal) = Len(sub_agents)
        /\ \A i \in DOMAIN sub_agents :
              Cardinality({j \in EndedLocal : completion[j].inv = <<"local", i>>}) = 1

\* a returned call with one handle, whose first sub-agent raised
C31_Witness ==
    /\ pc = "returned"
    /\ Len(remote_agents) = 1
    /\ outcomes[1].raised
    /\ ~outcomes[2].raised

----------------------------------------------------------------------------
(* C35 *)

\* C35: no construction ends in RecursionError, and no coordinator is
\* constructed while another coordinator's constructor is running.
C35_ConstructionReturns ==
    /\ ctor_state # "RecursionError"
    /\ Cardinality({i \in DOMAIN ctor_stack : ctor_stack[i].class = CoordinatorClass}) <= 1

----------------------------------------------------------------------------
(* C32 *)

WithKey(list, key) == SelectSeq(list, LAMBDA issue : priority_key(issue) = key)

PriorityKeys == {priority_key(issue) : issue \in PrioIssues}

\* C32: _prioritize_issues is stable: the issues of one severity rank and one
\* WCAG-level priority stand in the output in the order they had in the input.
C32_PrioritizeIsStable ==
    op = "prioritize" =>
        \A key \in PriorityKeys : WithKey(output, key) = WithKey(issues, key)

\* two different issues of one key were prioritized
C32_Witness ==
    /\ op = "prioritize"
    /\ Len(issues) = 2
    /\ issues[1] # issues[2]
    /\ priority_key(issues[1]) = priority_key(issues[2])
    /\ output = issues

----------------------------------------------------------------------------
(* C33 *)

\* the local checkers that returned in the run that has just ended
CompletedInLastRun == {sub_agents[i] : i \in {j \in DOMAIN outcomes : ~outcomes[j].raised}}

\* C33: when analyze has returned, test_results has an entry for exactly the
\* local checkers that returned in that run, each holding that run's list.
C33_ResultsAreOfTheLastRun ==
    Returned =>
        /\ DOMAIN test_results = CompletedInLastRun
        /\ \A i \in DOMAIN outcomes :
              ~outcomes[i].raised => test_results[sub_agents[i]] = outcomes[i].issues

----------------------------------------------------------------------------
(* C34 *)

TaskCalled == task_call.op = "execute_accessibility_test"

\* C34: when validate_url reports the URL invalid, the test tool returns a
\* result with success false and an error text, and runs no checker.
C34_InvalidUrlIsAFailureResult ==
    (TaskCalled /\ ~task_validate_url(task_call.url, task_call.head).valid) =>
        /\ task_call.result.raised = ""
        /\ ~task_call.result.success
        /\ task_call.result.error # <<>>
        /\ task_call.result.invoked = <<>>

----------------------------------------------------------------------------
(* C36 *)

\* the keys the registered cards declare
DeclaredKeys ==
    UNION {{method_key(agent_cards[name], agent_cards[name].methods[i]) :
               i \in DOMAIN agent_cards[name].methods} : name \in DOMAIN agent_cards}

\* C36: after any sequence of registrations there is one card per name, the card
\* stored under a name bears that name, and every key of method_handlers is
\* '<name>.<method>' of a method the card now registered under that name declares.
C36_HandlersAreOfCurrentCards ==
    /\ \A name \in DOMAIN agent_cards : agent_cards[name].name = name
    /\ DOMAIN agents = DOMAIN agent_cards
    /\ method_handlers = DeclaredKeys

----------------------------------------------------------------------------
(* C37 *)

ClientCalled == client_call.op = "send_request"

\* C37: a request for a method that the listing shows for an agent is never
\* answered with -32601, and the handler that runs is the one of the agent
\* registered under the handle's name at that time, for the method asked for.
C37_ListedMethodsReachTheirAgent ==
    ClientCalled =>
        /\ client_call.code # -32601
        /\ client_call.dispatched =
              <<[agent |-> client_call.registered, method |-> client_call.method_name]>>

----------------------------------------------------------------------------
(* C38 *)

\* the handles returned that name the card and the server's endpoint
ReturnedFor(card) ==
    {i \in DOMAIN last_op.returned :
        /\ last_op.returned[i].name = card.name
        /\ last_op.returned[i].endpoint = last_op.endpoint}

UsesDefaults(card) ==
    card \in ModuleCards \/ card.testing_capabilities = DefaultTestingCapabilities

\* C38: every registered card that is one of the module's cards, or has the
\* default testing_capabilities, is among the handles discover_remote_agents
\* returns when the server's endpoint answered.
C38_DefaultCardsAreDiscovered ==
    last_op.op = "discover_remote_agents" =>
        \A i \in DOMAIN last_op.registered :
            UsesDefaults(last_op.registered[i]) => ReturnedFor(last_op.registered[i]) # {}

----------------------------------------------------------------------------
(* C39 *)

====
